---- MODULE Spec2Model ----
(***************************************************************************)
(* MailChannelsClient: the DKIM-aware client of the MailChannels /send     *)
(* endpoint.  The model follows the client module: construction, the DKIM  *)
(* merge (applyDkimDefaults), the structural validation                    *)
(* (validateSendRequest) and the sendEmail call with its two awaits.       *)
(*                                                                         *)
(* JavaScript values are tagged records.  A string is a sequence of        *)
(* one-character strings, so that trim() is computed and not assumed.      *)
(***************************************************************************)
EXTENDS Integers, Sequences, FiniteSets, TLC

VARIABLES
    client,             \* the constructed MailChannelsClient (its readonly fields)
    pc,                 \* position of the sendEmail call: idle, fetch, text, done
    payload,            \* the caller's payload object of the current call
    normalizedPayload,  \* const normalizedPayload of sendEmail
    request,            \* what was handed to fetchImpl: url, method, headers, body
    fetchCalls,         \* number of fetchImpl invocations during the current call
    response,           \* the Response fetchImpl resolved with
    outcome,            \* how the call ended: returned value or thrown error
    now,                \* what Date.now() returned when it was last called
    vIn,                \* argument of a direct validateSendRequest application
    vOut,               \* what that application threw (empty: it returned)
    objects,            \* the header maps in memory, by reference
    error,              \* a constructed MailChannelsError (errors.ts)
    callerMap,          \* reference of the header map the caller still holds
    config,             \* the options object the constructor was given
    held,               \* the objects of a construction: who holds which
    callOptions,        \* the options argument of the current call
    rejection,          \* the value fetchImpl or response.text() rejected with
    calls               \* the sendEmail calls in flight side by side

vars == <<client, pc, payload, normalizedPayload, request, fetchCalls,
          response, outcome, now, vIn, vOut, objects, error, callerMap, config,
          held, callOptions, rejection, calls>>

\* the state of the error objects
errorVars == <<objects, error, callerMap>>

\* what only the calls with options, the rejections and the calls side by
\* side change
restVars == <<held, callOptions, rejection, calls>>

----------------------------------------------------------------------------
(* Bounds of the model.                                                     *)

\* number of personalizations of the payload the inputs are derived from
MaxPers == 2
\* length of the to / cc / bcc / content / attachments sequences of that payload
MaxList == 2
\* the deepest nesting of error objects in a response body
MaxDepth == 2

----------------------------------------------------------------------------
(* JavaScript values.                                                       *)

Undefined == [k |-> "undefined", s |-> <<>>]
\* a value that is not a string (the tests use 123)
NotAString == [k |-> "number", s |-> <<>>]
Str(s) == [k |-> "string", s |-> s]

IsString(v) == v.k = "string"

\* JavaScript truthiness of a scalar: undefined and "" are falsy, 123 is truthy.
Truthy(v) ==
    \/ v.k = "number"
    \/ v.k = "string" /\ Len(v.s) > 0

RECURSIVE TrimStart(_)
TrimStart(s) ==
    IF s = <<>> THEN <<>>
    ELSE IF Head(s) = " " THEN TrimStart(Tail(s)) ELSE s

RECURSIVE TrimEnd(_)
TrimEnd(s) ==
    IF s = <<>> THEN <<>>
    ELSE IF s[Len(s)] = " " THEN TrimEnd(SubSeq(s, 1, Len(s) - 1)) ELSE s

\* String.prototype.trim
Trim(s) == TrimEnd(TrimStart(s))

hasText(value) == IsString(value) /\ Len(Trim(value.s)) > 0

----------------------------------------------------------------------------
(* Shapes of the payload (types.ts).  A sequence-valued key is a tagged     *)
(* record: an array with its items, undefined (the key is absent), or a     *)
(* value that is not an array.  An object-valued key or element is an       *)
(* object, null or undefined.                                               *)

List(items) == [k |-> "array", items |-> items]
NoList == [k |-> "undefined", items |-> <<>>]
\* a value that is not an array (a non-empty string)
NotAList == [k |-> "string", items |-> <<>>]
IsArray(l) == l.k = "array"

EmailAddress(email) == [k |-> "object", email |-> email]
NullAddress == [k |-> "null", email |-> Undefined]

ContentBlock(type, value) == [k |-> "object", type |-> type, value |-> value]

Attachment(type, filename, content) ==
    [type |-> type, filename |-> filename, content |-> content]

\* subject stands for the keys the client never looks at; so does custom,
\* a key the types do not name ([key: string]: unknown).
Personalization(to, cc, bcc) ==
    [to |-> to, cc |-> cc, bcc |-> bcc, subject |-> Undefined,
     dkim_domain |-> Undefined, dkim_selector |-> Undefined,
     dkim_private_key |-> Undefined]

DkimKeys == {"dkim_domain", "dkim_selector", "dkim_private_key"}

----------------------------------------------------------------------------
(* Construction (MailChannelsClient.constructor).                           *)

DEFAULT_BASE_URL == <<"https://api.mailchannels.net", "/", "tx", "/", "v1">>
SEND_PATH == <<"send">>

\* (baseUrl ?? DEFAULT_BASE_URL).trim().replace(/\/?$/, "/"): the pattern
\* matches the last "/" when the string ends with one, and the empty string
\* at the end otherwise.
normalizeBaseUrl(baseUrl) ==
    LET t == Trim(IF baseUrl.k \in {"undefined", "null"} THEN DEFAULT_BASE_URL
                  ELSE baseUrl.s)
    IN  IF t # <<>> /\ t[Len(t)] = "/" THEN t ELSE Append(t, "/")

NoClient ==
    [built |-> FALSE, apiKey |-> <<>>, baseUrl |-> <<>>, defaultHeaders |-> {},
     dkim |-> [domain |-> Undefined, selector |-> Undefined,
               privateKey |-> Undefined]]

\* options.fetchImplementation ?? globalThis.fetch, by its type.  The option is
\* a function, undefined, null or a value of another type; the ambient fetch is
\* there (a function) or not.
FetchImpl(options) ==
    IF options.fetchImplementation \in {"undefined", "null"}
    THEN IF options.ambientFetch THEN "function" ELSE "undefined"
    ELSE options.fetchImplementation

\* The constructor taking the ambient fetch whenever the option is no function
\* (a test of the option's type instead of ??).
ConstructorThrowsAmbientFallback(options) ==
    IF options.k # "object"
    THEN <<"options is required when constructing MailChannelsClient.">>
    ELSE IF ~Truthy(options.apiKey)
    THEN <<"apiKey must be a non-empty string.">>
    ELSE IF ~IsString(options.apiKey)
    THEN <<"options.apiKey.trim is not a function">>
    ELSE IF Len(Trim(options.apiKey.s)) = 0
    THEN <<"apiKey must be a non-empty string.">>
    ELSE IF options.dkim.k # "object"
    THEN <<"dkim configuration is required when constructing MailChannelsClient.">>
    ELSE IF ~hasText(options.dkim.domain)
    THEN <<"dkim.domain must be a non-empty string.">>
    ELSE IF ~hasText(options.dkim.selector)
    THEN <<"dkim.selector must be a non-empty string.">>
    ELSE IF ~hasText(options.dkim.privateKey)
    THEN <<"dkim.privateKey must be a non-empty string containing the Base64-encoded key.">>
    ELSE IF options.fetchImplementation # "function" /\ ~options.ambientFetch
    THEN <<"No Fetch API implementation available. Provide one via options.fetchImplementation.">>
    ELSE IF options.baseUrl.k \notin {"undefined", "null", "string"}
    THEN <<"(baseUrl ?? DEFAULT_BASE_URL).trim is not a function">>
    ELSE <<>>

\* The constructor without its check of dkim.domain.
ConstructorThrowsDomainUnchecked(options) ==
    IF options.k # "object"
    THEN <<"options is required when constructing MailChannelsClient.">>
    ELSE IF ~Truthy(options.apiKey)
    THEN <<"apiKey must be a non-empty string.">>
    ELSE IF ~IsString(options.apiKey)
    THEN <<"options.apiKey.trim is not a function">>
    ELSE IF Len(Trim(options.apiKey.s)) = 0
    THEN <<"apiKey must be a non-empty string.">>
    ELSE IF options.dkim.k # "object"
    THEN <<"dkim configuration is required when constructing MailChannelsClient.">>
    ELSE IF ~hasText(options.dkim.selector)
    THEN <<"dkim.selector must be a non-empty string.">>
    ELSE IF ~hasText(options.dkim.privateKey)
    THEN <<"dkim.privateKey must be a non-empty string containing the Base64-encoded key.">>
    ELSE IF FetchImpl(options) # "function"
    THEN <<"No Fetch API implementation available. Provide one via options.fetchImplementation.">>
    ELSE IF options.baseUrl.k \notin {"undefined", "null", "string"}
    THEN <<"(baseUrl ?? DEFAULT_BASE_URL).trim is not a function">>
    ELSE <<>>

\* The message the constructor throws for the options, the empty sequence
\* when it throws nothing.  Messages are written without their backquotes.
ConstructorThrows(options) ==
    IF options.k # "object"
    THEN <<"options is required when constructing MailChannelsClient.">>
    ELSE IF ~Truthy(options.apiKey)
    THEN <<"apiKey must be a non-empty string.">>
    ELSE IF ~IsString(options.apiKey)
    THEN <<"options.apiKey.trim is not a function">>
    ELSE IF Len(Trim(options.apiKey.s)) = 0
    THEN <<"apiKey must be a non-empty string.">>
    ELSE IF options.dkim.k # "object"
    THEN <<"dkim configuration is required when constructing MailChannelsClient.">>
    ELSE IF ~hasText(options.dkim.domain)
    THEN <<"dkim.domain must be a non-empty string.">>
    ELSE IF ~hasText(options.dkim.selector)
    THEN <<"dkim.selector must be a non-empty string.">>
    ELSE IF ~hasText(options.dkim.privateKey)
    THEN <<"dkim.privateKey must be a non-empty string containing the Base64-encoded key.">>
    ELSE IF FetchImpl(options) # "function"
    THEN <<"No Fetch API implementation available. Provide one via options.fetchImplementation.">>
    ELSE IF options.baseUrl.k \notin {"undefined", "null", "string"}
    THEN <<"(baseUrl ?? DEFAULT_BASE_URL).trim is not a function">>
    ELSE <<>>

\* The fields the constructor assigns (lines 419-429).
NewClient(options) ==
    [built |-> TRUE,
     apiKey |-> options.apiKey.s,
     baseUrl |-> normalizeBaseUrl(options.baseUrl),
     defaultHeaders |-> options.defaultHeaders,
     dkim |-> [domain |-> Str(Trim(options.dkim.domain.s)),
               selector |-> Str(Trim(options.dkim.selector.s)),
               privateKey |-> Str(Trim(options.dkim.privateKey.s))]]

MailChannelsClient(options) ==
    IF ConstructorThrows(options) # <<>> THEN NoClient ELSE NewClient(options)

----------------------------------------------------------------------------
(* The DKIM merge (applyDkimDefaults, selectDkimValue).                     *)

\* selectDkimValue returning the candidate as it is, without trimming it.
selectDkimValueUntrimmed(value, fallback) ==
    IF hasText(value) THEN value ELSE fallback

selectDkimValue(value, fallback) ==
    IF hasText(value) THEN Str(Trim(value.s)) ELSE fallback

\* payload.personalizations.map(...) throws when the key holds no array.
ApplyDkimThrows(p) ==
    IF p.personalizations.k = "undefined"
    THEN <<"Cannot read properties of undefined (reading 'map')">>
    ELSE IF ~IsArray(p.personalizations)
    THEN <<"payload.personalizations.map is not a function">>
    ELSE <<>>

\* applyDkimDefaults with the body's domain and selector read from each other's key.
applyDkimDefaultsSwapped(dkim, p) ==
    LET globalDomain == selectDkimValue(p.dkim_selector, dkim.domain)
        globalSelector == selectDkimValue(p.dkim_domain, dkim.selector)
        globalPrivateKey == selectDkimValue(p.dkim_private_key, dkim.privateKey)
        Map(personalization) ==
            [personalization EXCEPT
                !.dkim_domain = selectDkimValue(personalization.dkim_domain, globalDomain),
                !.dkim_selector = selectDkimValue(personalization.dkim_selector, globalSelector),
                !.dkim_private_key =
                    selectDkimValue(personalization.dkim_private_key, globalPrivateKey)]
    IN  [p EXCEPT
            !.personalizations =
                List([i \in DOMAIN p.personalizations.items |->
                        Map(p.personalizations.items[i])]),
            !.dkim_domain = globalDomain,
            !.dkim_selector = globalSelector,
            !.dkim_private_key = globalPrivateKey]

\* applyDkimDefaults building its result from the keys the types name, so that a
\* key they do not name is lost.
applyDkimDefaultsKnownKeys(dkim, p) ==
    LET globalDomain == selectDkimValue(p.dkim_domain, dkim.domain)
        globalSelector == selectDkimValue(p.dkim_selector, dkim.selector)
        globalPrivateKey == selectDkimValue(p.dkim_private_key, dkim.privateKey)
        Map(personalization) ==
            [personalization EXCEPT
                !.dkim_domain = selectDkimValue(personalization.dkim_domain, globalDomain),
                !.dkim_selector = selectDkimValue(personalization.dkim_selector, globalSelector),
                !.dkim_private_key =
                    selectDkimValue(personalization.dkim_private_key, globalPrivateKey)]
    IN  [p EXCEPT
            !.personalizations =
                List([i \in DOMAIN p.personalizations.items |->
                        Map(p.personalizations.items[i])]),
            !.custom = Undefined,
            !.dkim_domain = globalDomain,
            !.dkim_selector = globalSelector,
            !.dkim_private_key = globalPrivateKey]

\* The payload applyDkimDefaults returns (when it does not throw).
applyDkimDefaults(dkim, p) ==
    LET globalDomain == selectDkimValue(p.dkim_domain, dkim.domain)
        globalSelector == selectDkimValue(p.dkim_selector, dkim.selector)
        globalPrivateKey == selectDkimValue(p.dkim_private_key, dkim.privateKey)
        Map(personalization) ==
            [personalization EXCEPT
                !.dkim_domain = selectDkimValue(personalization.dkim_domain, globalDomain),
                !.dkim_selector = selectDkimValue(personalization.dkim_selector, globalSelector),
                !.dkim_private_key =
                    selectDkimValue(personalization.dkim_private_key, globalPrivateKey)]
    IN  [p EXCEPT
            !.personalizations =
                List([i \in DOMAIN p.personalizations.items |->
                        Map(p.personalizations.items[i])]),
            !.dkim_domain = globalDomain,
            !.dkim_selector = globalSelector,
            !.dkim_private_key = globalPrivateKey]

----------------------------------------------------------------------------
(* Structural validation (validateSendRequest and its helpers).  A thrown   *)
(* TypeError is its message, a sequence of tokens: the path of the field,   *)
(* token by token, then the rest of the text.  The empty sequence means     *)
(* that nothing was thrown.                                                 *)

\* "[i]" for the element at position pos of a sequence (JavaScript counts from 0)
Idx(pos) == "[" \o ToString(pos - 1) \o "]"

\* Statements run in order: the first one that throws ends the function.
RECURSIVE FirstThrow(_)
FirstThrow(thrown) ==
    IF thrown = <<>> THEN <<>>
    ELSE IF Head(thrown) # <<>> THEN Head(thrown)
    ELSE FirstThrow(Tail(thrown))

\* validateEmailAddress without the trim: an email of white space only passes.
validateEmailAddressUntrimmed(address, path) ==
    IF \/ address.k # "object"
       \/ ~IsString(address.email)
       \/ Len(address.email.s) = 0
    THEN path \o <<".email", " must be a non-empty string.">>
    ELSE <<>>

validateEmailAddress(address, path) ==
    IF \/ address.k # "object"
       \/ ~IsString(address.email)
       \/ Len(Trim(address.email.s)) = 0
    THEN path \o <<".email", " must be a non-empty string.">>
    ELSE <<>>

\* recipients.forEach((recipient, recipientIndex) => validateEmailAddress(...))
ForEachRecipient(recipients, path) ==
    FirstThrow([j \in DOMAIN recipients |->
                    validateEmailAddress(recipients[j], path \o <<Idx(j)>>)])

validatePersonalization(personalization, index) ==
    LET here == <<"personalizations", Idx(index)>>
    IN  IF ~IsArray(personalization.to) \/ Len(personalization.to.items) = 0
        THEN here \o <<".to", " must contain at least one recipient.">>
        ELSE FirstThrow(<<
            ForEachRecipient(personalization.to.items, here \o <<".to">>),
            IF IsArray(personalization.cc)
            THEN ForEachRecipient(personalization.cc.items, here \o <<".cc">>)
            ELSE <<>>,
            IF IsArray(personalization.bcc)
            THEN ForEachRecipient(personalization.bcc.items, here \o <<".bcc">>)
            ELSE <<>> >>)

\* validateContentBlock testing the value for truth (!block.value): an empty
\* string is rejected.
validateContentBlockFalsyValue(block, index) ==
    IF \/ block.k # "object"
       \/ ~IsString(block.type)
       \/ Len(Trim(block.type.s)) = 0
    THEN <<"content", Idx(index), ".type", " must be a non-empty string.">>
    ELSE IF ~IsString(block.value) \/ ~Truthy(block.value)
    THEN <<"content", Idx(index), ".value", " must be a string.">>
    ELSE <<>>

validateContentBlock(block, index) ==
    IF \/ block.k # "object"
       \/ ~IsString(block.type)
       \/ Len(Trim(block.type.s)) = 0
    THEN <<"content", Idx(index), ".type", " must be a non-empty string.">>
    ELSE IF ~IsString(block.value)
    THEN <<"content", Idx(index), ".value", " must be a string.">>
    ELSE <<>>

validateAttachment(attachment, index) ==
    IF ~Truthy(attachment.type) \/ ~IsString(attachment.type)
    THEN <<"attachments", Idx(index), ".type", " must be a non-empty string.">>
    ELSE IF ~Truthy(attachment.filename) \/ ~IsString(attachment.filename)
    THEN <<"attachments", Idx(index), ".filename", " must be a non-empty string.">>
    ELSE IF ~Truthy(attachment.content) \/ ~IsString(attachment.content)
    THEN <<"attachments", Idx(index), ".content", " must be a base64 string.">>
    ELSE <<>>

validateDkimFields(fields, path) ==
    IF ~hasText(fields.dkim_domain)
    THEN path \o <<".dkim_domain", " must be a non-empty string.">>
    ELSE IF ~hasText(fields.dkim_selector)
    THEN path \o <<".dkim_selector", " must be a non-empty string.">>
    ELSE IF ~hasText(fields.dkim_private_key)
    THEN path \o <<".dkim_private_key", " must be a non-empty string.">>
    ELSE <<>>

\* validateSendRequest with the content checked before the from and reply_to
\* addresses.
validateSendRequestContentFirst(p) ==
    IF ~IsArray(p.personalizations) \/ Len(p.personalizations.items) = 0
    THEN <<"personalizations", " must contain at least one recipient block.">>
    ELSE FirstThrow(<<
        FirstThrow([i \in DOMAIN p.personalizations.items |->
                        validatePersonalization(p.personalizations.items[i], i)]),
        IF ~IsArray(p.content) \/ Len(p.content.items) = 0
        THEN <<"content", " must include at least one content block.">>
        ELSE <<>>,
        FirstThrow([i \in DOMAIN p.content.items |->
                        validateContentBlock(p.content.items[i], i)]),
        validateEmailAddress(p.from, <<"from">>),
        IF p.reply_to.k = "object"
        THEN validateEmailAddress(p.reply_to, <<"reply_to">>)
        ELSE <<>>,
        IF IsArray(p.attachments)
        THEN FirstThrow([i \in DOMAIN p.attachments.items |->
                            validateAttachment(p.attachments.items[i], i)])
        ELSE <<>>,
        validateDkimFields(p, <<"request body">>),
        FirstThrow([i \in DOMAIN p.personalizations.items |->
                        validateDkimFields(p.personalizations.items[i],
                                           <<"personalizations", Idx(i)>>)]) >>)

validateSendRequest(p) ==
    IF ~IsArray(p.personalizations) \/ Len(p.personalizations.items) = 0
    THEN <<"personalizations", " must contain at least one recipient block.">>
    ELSE FirstThrow(<<
        FirstThrow([i \in DOMAIN p.personalizations.items |->
                        validatePersonalization(p.personalizations.items[i], i)]),
        validateEmailAddress(p.from, <<"from">>),
        IF p.reply_to.k = "object"
        THEN validateEmailAddress(p.reply_to, <<"reply_to">>)
        ELSE <<>>,
        IF ~IsArray(p.content) \/ Len(p.content.items) = 0
        THEN <<"content", " must include at least one content block.">>
        ELSE <<>>,
        FirstThrow([i \in DOMAIN p.content.items |->
                        validateContentBlock(p.content.items[i], i)]),
        IF IsArray(p.attachments)
        THEN FirstThrow([i \in DOMAIN p.attachments.items |->
                            validateAttachment(p.attachments.items[i], i)])
        ELSE <<>>,
        validateDkimFields(p, <<"request body">>),
        FirstThrow([i \in DOMAIN p.personalizations.items |->
                        validateDkimFields(p.personalizations.items[i],
                                           <<"personalizations", Idx(i)>>)]) >>)

----------------------------------------------------------------------------
(* JSON.stringify(normalizedPayload).  A JSON value is a tagged record; an  *)
(* object is the set of its <<key, value>> members.  A key whose value is   *)
(* undefined is left out of the object; null is written as null.            *)

JNull == [t |-> "null", s |-> <<>>, items |-> <<>>, members |-> {}]
JNumber == [t |-> "number", s |-> <<>>, items |-> <<>>, members |-> {}]
JString(s) == [t |-> "string", s |-> s, items |-> <<>>, members |-> {}]
JArray(items) == [t |-> "array", s |-> <<>>, items |-> items, members |-> {}]
JObject(members) == [t |-> "object", s |-> <<>>, items |-> <<>>, members |-> members]

\* the member for key, none when the value is undefined
Member(key, kind, json) == IF kind = "undefined" THEN {} ELSE {<<key, json>>}

JsonScalar(v) == IF v.k = "string" THEN JString(v.s) ELSE JNumber

JsonAddress(a) ==
    IF a.k = "null" THEN JNull
    ELSE JObject(Member("email", a.email.k, JsonScalar(a.email)))

JsonAddresses(l) ==
    IF IsArray(l) THEN JArray([j \in DOMAIN l.items |-> JsonAddress(l.items[j])])
    ELSE JString(<<"x">>)

JsonPersonalization(q) ==
    JObject(Member("to", q.to.k, JsonAddresses(q.to))
            \cup Member("cc", q.cc.k, JsonAddresses(q.cc))
            \cup Member("bcc", q.bcc.k, JsonAddresses(q.bcc))
            \cup Member("subject", q.subject.k, JsonScalar(q.subject))
            \cup Member("dkim_domain", q.dkim_domain.k, JsonScalar(q.dkim_domain))
            \cup Member("dkim_selector", q.dkim_selector.k, JsonScalar(q.dkim_selector))
            \cup Member("dkim_private_key", q.dkim_private_key.k,
                        JsonScalar(q.dkim_private_key)))

JsonStringify(p) ==
    LET JsonBlock(b) ==
            IF b.k = "null" THEN JNull
            ELSE JObject(Member("type", b.type.k, JsonScalar(b.type))
                         \cup Member("value", b.value.k, JsonScalar(b.value)))
        JsonAttachment(a) ==
            JObject(Member("type", a.type.k, JsonScalar(a.type))
                    \cup Member("filename", a.filename.k, JsonScalar(a.filename))
                    \cup Member("content", a.content.k, JsonScalar(a.content)))
        JsonList(l, Element(_)) ==
            IF IsArray(l) THEN JArray([i \in DOMAIN l.items |-> Element(l.items[i])])
            ELSE JString(<<"x">>)
    IN
    JObject(Member("personalizations", p.personalizations.k,
                   JsonList(p.personalizations, JsonPersonalization))
            \cup Member("from", p.from.k, JsonAddress(p.from))
            \cup Member("reply_to", p.reply_to.k, JsonAddress(p.reply_to))
            \cup Member("subject", p.subject.k, JsonScalar(p.subject))
            \cup Member("content", p.content.k, JsonList(p.content, JsonBlock))
            \cup Member("attachments", p.attachments.k, JsonList(p.attachments, JsonAttachment))
            \cup Member("custom", p.custom.k, JsonScalar(p.custom))
            \cup Member("dkim_domain", p.dkim_domain.k, JsonScalar(p.dkim_domain))
            \cup Member("dkim_selector", p.dkim_selector.k, JsonScalar(p.dkim_selector))
            \cup Member("dkim_private_key", p.dkim_private_key.k,
                        JsonScalar(p.dkim_private_key)))

----------------------------------------------------------------------------
(* The request sendEmail builds (lines 452-472).                            *)

\* new URL(relative, base) throws unless base is an absolute URL: one that
\* starts with a scheme and a host.
UrlParses(base) ==
    /\ base # <<>>
    /\ Head(base) \in {"https://api.mailchannels.net", "https://example.com"}

\* the base up to and with its last "/"
RECURSIVE DirOf(_)
DirOf(base) ==
    IF Len(base) <= 1 THEN base \o <<"/">>
    ELSE IF base[Len(base)] = "/" THEN base
    ELSE DirOf(SubSeq(base, 1, Len(base) - 1))

\* new URL(SEND_PATH, this.baseUrl), with the dry-run parameter, as a string
RequestUrl(c, options) ==
    DirOf(c.baseUrl) \o SEND_PATH
        \o (IF options.dryRun THEN <<"?dry-run=true">> ELSE <<>>)

\* { ...a, ...b }: the entries of b replace those of a with the same name
Spread(a, b) == {e \in a : ~\E o \in b : o[1] = e[1]} \cup b

\* the headers with the key of the call written before the default headers are
\* spread: a default Idempotency-Key wins
RequestHeadersKeyFirst(c, options) ==
    LET headers ==
            Spread({<<"content-type", <<"application/json">> >>,
                    <<"X-Api-Key", c.apiKey>>},
                   IF Truthy(options.idempotencyKey)
                   THEN {<<"Idempotency-Key", options.idempotencyKey.s>>}
                   ELSE {})
    IN  Spread(headers, c.defaultHeaders)

RequestHeaders(c, options) ==
    LET headers ==
            Spread({<<"content-type", <<"application/json">> >>,
                    <<"X-Api-Key", c.apiKey>>},
                   c.defaultHeaders)
    IN  IF Truthy(options.idempotencyKey)
        THEN Spread(headers, {<<"Idempotency-Key", options.idempotencyKey.s>>})
        ELSE headers

NoRequest ==
    [url |-> <<>>, method |-> "", headers |-> {}, body |-> JNull, signal |-> "undefined"]

BuildRequest(c, normalized, options) ==
    [url |-> RequestUrl(c, options),
     method |-> "POST",
     headers |-> RequestHeaders(c, options),
     body |-> JsonStringify(normalized),
     signal |-> options.signal]

----------------------------------------------------------------------------
(* Inputs.  The payloads are the payload of the test suite (createPayload)  *)
(* with up to two of its keys replaced, the way the tests derive theirs.    *)

GoodAddress == EmailAddress(Str(<<"a", "@", "b">>))
GoodRecipients == List([j \in 1..MaxList |-> GoodAddress])

\* The first personalization has no DKIM keys, the others override all three.
BasePayload ==
    [personalizations |->
        List([i \in 1..MaxPers |->
                IF i = 1
                THEN Personalization(GoodRecipients, GoodRecipients, GoodRecipients)
                ELSE [Personalization(GoodRecipients, NoList, NoList) EXCEPT
                        !.dkim_domain = Str(<<" ", "o", " ">>),
                        !.dkim_selector = Str(<<" ", "p", " ">>),
                        !.dkim_private_key = Str(<<" ", "q", " ">>)]]),
     from |-> GoodAddress,
     reply_to |-> GoodAddress,
     subject |-> Str(<<"t">>),
     content |-> List([i \in 1..MaxList |->
                        ContentBlock(Str(<<"text/plain">>), Str(<<"c">>))]),
     attachments |-> List([i \in 1..MaxList |->
                        Attachment(Str(<<"text/plain">>), Str(<<"f">>),
                                   Str(<<"Y", "Q">>))]),
     custom |-> Undefined,
     dkim_domain |-> Undefined,
     dkim_selector |-> Undefined,
     dkim_private_key |-> Undefined]

\* missing, not a string, empty, whitespace only; then a padded good value
BlankValues == {Undefined, NotAString, Str(<<>>), Str(<<" ">>)}
EmailValues == BlankValues \cup {Str(<<" ", "c">>)}
DkimValues == BlankValues \cup {Str(<<" ", "x", " ">>), Str(<<"y">>)}
OtherValues == {Undefined, Str(<<"u">>)}

\* the proper prefixes of a sequence
Shorter(items) == {SubSeq(items, 1, n) : n \in 0..(Len(items) - 1)}

\* an address sequence with one address replaced
RecipientEdits(l) ==
    IF ~IsArray(l) THEN {}
    ELSE {List(items) : items \in Shorter(l.items)}
         \cup {[l EXCEPT !.items[j] = NullAddress] : j \in DOMAIN l.items}
         \cup {[l EXCEPT !.items[j].email = v] : j \in DOMAIN l.items, v \in EmailValues}

\* every payload that differs from p in one key
Edits(p) ==
    LET PersonalizationEdits(q) ==
            {[q EXCEPT !.to = l] : l \in {NoList, NotAList} \cup RecipientEdits(q.to)}
            \cup {[q EXCEPT !.cc = l] : l \in {NoList} \cup RecipientEdits(q.cc)}
            \cup {[q EXCEPT !.bcc = l] : l \in {NoList} \cup RecipientEdits(q.bcc)}
            \cup {[q EXCEPT !.subject = v] : v \in OtherValues}
            \cup {[q EXCEPT ![key] = v] : key \in DkimKeys, v \in DkimValues}

        ContentEdits(l) ==
            {NoList, NotAList} \cup
            (IF ~IsArray(l) THEN {}
             ELSE {List(items) : items \in Shorter(l.items)}
                  \cup {[l EXCEPT !.items[i] = [k |-> "null", type |-> Undefined,
                                                  value |-> Undefined]] : i \in DOMAIN l.items}
                  \cup {[l EXCEPT !.items[i].type = v] : i \in DOMAIN l.items, v \in BlankValues}
                  \cup {[l EXCEPT !.items[i].value = v] : i \in DOMAIN l.items,
                            v \in {Undefined, NotAString, Str(<<>>)}})

        AttachmentEdits(l) ==
            {NoList} \cup
            (IF ~IsArray(l) THEN {}
             ELSE {List(items) : items \in Shorter(l.items)}
                  \cup {[l EXCEPT !.items[i][key] = v] :
                            i \in DOMAIN l.items, key \in {"type", "filename", "content"},
                            v \in BlankValues})

        AddressEdits ==
            {[k |-> "undefined", email |-> Undefined], NullAddress}
            \cup {EmailAddress(v) : v \in EmailValues}

        \* the edits of the DKIM keys of the body and of the personalizations
        DkimEdits ==
            {[p EXCEPT ![key] = v] : key \in DkimKeys, v \in DkimValues}
            \cup (IF ~IsArray(p.personalizations) THEN {}
                  ELSE {[p EXCEPT !.personalizations.items[i][key] = v] :
                            i \in DOMAIN p.personalizations.items, key \in DkimKeys,
                            v \in DkimValues})
    IN
    {[p EXCEPT !.personalizations = l] :
        l \in {NoList, NotAList}
              \cup (IF ~IsArray(p.personalizations) THEN {}
                    ELSE {List(items) : items \in Shorter(p.personalizations.items)})}
    \cup (IF ~IsArray(p.personalizations) THEN {}
          ELSE UNION {{[p EXCEPT !.personalizations.items[i] = q] :
                            q \in PersonalizationEdits(p.personalizations.items[i])} :
                        i \in DOMAIN p.personalizations.items})
    \cup {[p EXCEPT !.from = a] : a \in AddressEdits}
    \cup {[p EXCEPT !.reply_to = a] : a \in AddressEdits}
    \cup {[p EXCEPT !.content = l] : l \in ContentEdits(p.content)}
    \cup {[p EXCEPT !.attachments = l] : l \in AttachmentEdits(p.attachments)}
    \cup {[p EXCEPT !.subject = v] : v \in OtherValues}
    \cup {[p EXCEPT !.custom = v] : v \in OtherValues}
    \cup DkimEdits

\* the options of the test suite (baseOptions): padded DKIM defaults
BaseOptions ==
    [k |-> "object",
     apiKey |-> Str(<<"k">>),
     dkim |-> [k |-> "object",
               domain |-> Str(<<" ", "d", " ">>),
               selector |-> Str(<<" ", "s", " ">>),
               privateKey |-> Str(<<" ", "k", " ">>)],
     baseUrl |-> Undefined,
     defaultHeaders |-> {},
     fetchImplementation |-> "function",
     ambientFetch |-> TRUE]

ClientOptions ==
    {BaseOptions,
     [BaseOptions EXCEPT !.baseUrl = Str(<<"https://example.com", "/", "api">>),
                         !.dkim.domain = Str(<<"e">>),
                         !.defaultHeaders = {<<"X-Custom", <<"1">> >>}],
     \* a base URL without a scheme
     [BaseOptions EXCEPT !.baseUrl = Str(<<"example.com", "/", "api">>)],
     [BaseOptions EXCEPT !.dkim.domain = Str(<<" ">>)]}

DefaultCallOptions ==
    [dryRun |-> FALSE, idempotencyKey |-> Undefined, signal |-> "undefined"]

\* the options of a call: the signal is absent, an AbortSignal, or an
\* AbortSignal that is aborted already
CallOptions ==
    [dryRun : BOOLEAN,
     idempotencyKey : {Undefined, Str(<<>>), Str(<<" ">>), Str(<<"i">>)},
     signal : {"undefined", "signal", "aborted"}]

\* the statuses the transport answers with
Statuses == {200, 400, 429, 503}

\* what Date.now() may return, in milliseconds
Times == {0, 500, 1000, 2000, 2500}

----------------------------------------------------------------------------
(* The response.  The body text is a sequence of characters in which the    *)
(* punctuation of JSON, the quote and the space are characters of their own *)
(* and a run of other characters (a word, a numeral) is written as one       *)
(* character.  The texts of the model hold no escape sequences.             *)

Null == [k |-> "null", s |-> <<>>]

JUndefined == [t |-> "undefined", s |-> <<>>, items |-> <<>>, members |-> {}]
JBoolean(b) == [t |-> IF b THEN "true" ELSE "false", s |-> <<>>, items |-> <<>>, members |-> {}]

Fail == [ok |-> FALSE, value |-> JUndefined, rest |-> <<>>]
Parsed(value, rest) == [ok |-> TRUE, value |-> value, rest |-> rest]

\* the text after an opening quote: the string up to the closing quote
ParseString(t) ==
    IF \A i \in DOMAIN t : t[i] # "\""
    THEN Fail
    ELSE LET close == CHOOSE i \in DOMAIN t :
                          t[i] = "\"" /\ \A j \in 1..(i - 1) : t[j] # "\""
         IN  Parsed(JString(SubSeq(t, 1, close - 1)), SubSeq(t, close + 1, Len(t)))

RECURSIVE ParseValue(_)
RECURSIVE ParseMembers(_, _)
RECURSIVE ParseElements(_, _)

\* the members of an object after its opening brace; a repeated key keeps its
\* last value
ParseMembers(t0, members) ==
    LET t == TrimStart(t0)
    IN  IF t = <<>> \/ Head(t) # "\"" THEN Fail
        ELSE LET key == ParseString(Tail(t))
                 colon == TrimStart(key.rest)
             IN  IF ~key.ok \/ colon = <<>> \/ Head(colon) # ":" THEN Fail
                 ELSE LET value == ParseValue(Tail(colon))
                          next == TrimStart(value.rest)
                          all == {m \in members : m[1] # key.value.s}
                                    \cup {<<key.value.s, value.value>>}
                      IN  IF ~value.ok \/ next = <<>> THEN Fail
                          ELSE IF Head(next) = "," THEN ParseMembers(Tail(next), all)
                          ELSE IF Head(next) = "}" THEN Parsed(JObject(all), Tail(next))
                          ELSE Fail

\* the elements of an array after its opening bracket
ParseElements(t, items) ==
    LET value == ParseValue(t)
        next == TrimStart(value.rest)
    IN  IF ~value.ok \/ next = <<>> THEN Fail
        ELSE IF Head(next) = "," THEN ParseElements(Tail(next), Append(items, value.value))
        ELSE IF Head(next) = "]" THEN Parsed(JArray(Append(items, value.value)), Tail(next))
        ELSE Fail

ParseValue(t0) ==
    LET t == TrimStart(t0)
    IN  IF t = <<>> THEN Fail
        ELSE IF Head(t) = "{"
        THEN LET u == TrimStart(Tail(t))
             IN  IF u # <<>> /\ Head(u) = "}" THEN Parsed(JObject({}), Tail(u))
                 ELSE ParseMembers(u, {})
        ELSE IF Head(t) = "["
        THEN LET u == TrimStart(Tail(t))
             IN  IF u # <<>> /\ Head(u) = "]" THEN Parsed(JArray(<<>>), Tail(u))
                 ELSE ParseElements(u, <<>>)
        ELSE IF Head(t) = "\"" THEN ParseString(Tail(t))
        ELSE IF Head(t) = "true" THEN Parsed(JBoolean(TRUE), Tail(t))
        ELSE IF Head(t) = "false" THEN Parsed(JBoolean(FALSE), Tail(t))
        ELSE IF Head(t) = "null" THEN Parsed(JNull, Tail(t))
        ELSE IF Head(t) \in {"0", "1", "5", "42"} THEN Parsed(JNumber, Tail(t))
        ELSE Fail

\* JSON.parse(text): the value and whether the text is JSON (it throws otherwise)
JsonParse(text) ==
    LET r == ParseValue(text)
    IN  IF r.ok /\ TrimStart(r.rest) = <<>> THEN r ELSE Fail

\* body[key] of a parsed body
Get(body, key) ==
    IF body.t = "object" /\ \E m \in body.members : m[1] = key
    THEN (CHOOSE m \in body.members : m[1] = key)[2]
    ELSE JUndefined

\* value && typeof value === "object"
IsObject(v) == v.t \in {"object", "array"}

\* typeof value === "string" && value.trim().length > 0
HasTextJson(v) == v.t = "string" /\ Len(Trim(v.s)) > 0

candidateKeys == << <<"message">>, <<"error_description">>, <<"detail">>, <<"error">> >>

\* the loop over the candidate keys returning the value as it stands (value
\* instead of value.trim())
FirstCandidateUntrimmed(body) ==
    IF \A n \in DOMAIN candidateKeys : ~HasTextJson(Get(body, candidateKeys[n]))
    THEN Undefined
    ELSE LET n == CHOOSE n \in DOMAIN candidateKeys :
                      /\ HasTextJson(Get(body, candidateKeys[n]))
                      /\ \A m \in 1..(n - 1) : ~HasTextJson(Get(body, candidateKeys[m]))
         IN  Str(Get(body, candidateKeys[n]).s)

\* the first candidate key of the body whose value is a non-blank string
FirstCandidate(body) ==
    IF \A n \in DOMAIN candidateKeys : ~HasTextJson(Get(body, candidateKeys[n]))
    THEN Undefined
    ELSE LET n == CHOOSE n \in DOMAIN candidateKeys :
                      /\ HasTextJson(Get(body, candidateKeys[n]))
                      /\ \A m \in 1..(n - 1) : ~HasTextJson(Get(body, candidateKeys[m]))
         IN  Str(Trim(Get(body, candidateKeys[n]).s))

RECURSIVE extractMessageFromBody(_)
RECURSIVE ForEachError(_)

\* the loop over body.errors
ForEachError(entries) ==
    IF entries = <<>> THEN Undefined
    ELSE LET entry == Head(entries)
         IN  IF HasTextJson(entry) THEN Str(Trim(entry.s))
             ELSE LET nested == IF IsObject(entry) THEN extractMessageFromBody(entry)
                                ELSE Undefined
                  IN  IF Truthy(nested) THEN nested ELSE ForEachError(Tail(entries))

\* extractMessageFromBody with the errors array visited before the nested error
extractMessageFromBodyErrorsFirst(body) ==
    LET top == FirstCandidate(body)
    IN  IF top # Undefined THEN top
        ELSE LET errorsField == Get(body, <<"errors">>)
                 listed == IF errorsField.t = "array" THEN ForEachError(errorsField.items)
                           ELSE Undefined
             IN  IF Truthy(listed) THEN listed
                 ELSE LET nestedError == Get(body, <<"error">>)
                      IN  IF IsObject(nestedError) THEN extractMessageFromBody(nestedError)
                          ELSE Undefined

extractMessageFromBody(body) ==
    LET top == FirstCandidate(body)
    IN  IF top # Undefined THEN top
        ELSE LET nestedError == Get(body, <<"error">>)
                 nestedMessage == IF IsObject(nestedError)
                                  THEN extractMessageFromBody(nestedError)
                                  ELSE Undefined
             IN  IF Truthy(nestedMessage) THEN nestedMessage
                 ELSE LET errorsField == Get(body, <<"errors">>)
                      IN  IF errorsField.t = "array" THEN ForEachError(errorsField.items)
                          ELSE Undefined

\* deriveErrorMessage with the raw text tried before the parsed body
deriveErrorMessageTextFirst(status, statusText, parsedBody, rawText) ==
    LET fallback ==
            IF Truthy(statusText)
            THEN <<"MailChannels request failed with ", ToString(status), " ">>
                    \o statusText.s
            ELSE <<"MailChannels request failed with status ", ToString(status)>>
        message == IF IsObject(parsedBody) THEN extractMessageFromBody(parsedBody)
                   ELSE Undefined
    IN  IF hasText(Str(rawText)) THEN Trim(rawText)
        ELSE IF Truthy(message) THEN message.s
        ELSE fallback

deriveErrorMessage(status, statusText, parsedBody, rawText) ==
    LET fallback ==
            IF Truthy(statusText)
            THEN <<"MailChannels request failed with ", ToString(status), " ">>
                    \o statusText.s
            ELSE <<"MailChannels request failed with status ", ToString(status)>>
        message == IF IsObject(parsedBody) THEN extractMessageFromBody(parsedBody)
                   ELSE Undefined
    IN  IF Truthy(message) THEN message.s
        ELSE IF hasText(Str(rawText)) THEN Trim(rawText)
        ELSE fallback

\* String.prototype.toLowerCase on the header names of the model
toLowerCase(name) ==
    CASE name = "X-Request-Id" -> "x-request-id"
      [] name = "X-MC-Request-Id" -> "x-mc-request-id"
      [] name = "MC-Request-Id" -> "mc-request-id"
      [] name = "CF-Ray" -> "cf-ray"
      [] name = "Retry-After" -> "retry-after"
      [] name = "Content-Type" -> "content-type"
      [] name = "X-Trace" -> "x-trace"
      [] OTHER -> name

\* headers.get(name): the lookup ignores the case of the name; null when the
\* header is not there.  The headers are the <<name, value>> pairs in the order
\* forEach visits them.
HeadersGet(headers, name) ==
    IF \A n \in DOMAIN headers : toLowerCase(headers[n][1]) # toLowerCase(name)
    THEN Null
    ELSE LET n == CHOOSE n \in DOMAIN headers :
                      /\ toLowerCase(headers[n][1]) = toLowerCase(name)
                      /\ \A m \in 1..(n - 1) :
                            toLowerCase(headers[m][1]) # toLowerCase(name)
         IN  Str(headers[n][2])

\* result[key.toLowerCase()] = value for each header in turn: a later header of
\* the same lower-cased name replaces the earlier one
RECURSIVE serializeHeaders(_)
serializeHeaders(headers) ==
    IF headers = <<>> THEN {}
    ELSE LET last == headers[Len(headers)]
             key == toLowerCase(last[1])
         IN  {e \in serializeHeaders(SubSeq(headers, 1, Len(headers) - 1)) : e[1] # key}
                \cup {<<key, last[2]>>}

REQUEST_ID_HEADER_CANDIDATES == <<"x-request-id", "x-mc-request-id", "mc-request-id", "cf-ray">>

\* extractRequestId returning at the first candidate header that is there
extractRequestIdFirstPresent(headers) ==
    IF \A n \in DOMAIN REQUEST_ID_HEADER_CANDIDATES :
            HeadersGet(headers, REQUEST_ID_HEADER_CANDIDATES[n]) = Null
    THEN Undefined
    ELSE LET n == CHOOSE n \in DOMAIN REQUEST_ID_HEADER_CANDIDATES :
                      /\ HeadersGet(headers, REQUEST_ID_HEADER_CANDIDATES[n]) # Null
                      /\ \A m \in 1..(n - 1) :
                            HeadersGet(headers, REQUEST_ID_HEADER_CANDIDATES[m]) = Null
             value == HeadersGet(headers, REQUEST_ID_HEADER_CANDIDATES[n])
         IN  IF hasText(value) THEN Str(Trim(value.s)) ELSE Undefined

extractRequestId(headers) ==
    IF \A n \in DOMAIN REQUEST_ID_HEADER_CANDIDATES :
            ~hasText(HeadersGet(headers, REQUEST_ID_HEADER_CANDIDATES[n]))
    THEN Undefined
    ELSE LET n == CHOOSE n \in DOMAIN REQUEST_ID_HEADER_CANDIDATES :
                      /\ hasText(HeadersGet(headers, REQUEST_ID_HEADER_CANDIDATES[n]))
                      /\ \A m \in 1..(n - 1) :
                            ~hasText(HeadersGet(headers, REQUEST_ID_HEADER_CANDIDATES[m]))
         IN  Str(Trim(HeadersGet(headers, REQUEST_ID_HEADER_CANDIDATES[n]).s))

\* a number, NaN or undefined
Number(n) == [k |-> "number", n |-> n]
NaN == [k |-> "NaN", n |-> 0]
NoNumber == [k |-> "undefined", n |-> 0]

DigitValue(c) ==
    CASE c = "0" -> 0 [] c = "1" -> 1 [] c = "2" -> 2 [] c = "3" -> 3 [] c = "4" -> 4
      [] c = "5" -> 5 [] c = "6" -> 6 [] c = "7" -> 7 [] c = "8" -> 8 [] c = "9" -> 9
      [] OTHER -> -1

\* the value of the leading digits of s, read after the digits that gave acc
RECURSIVE Digits(_, _)
Digits(s, acc) ==
    IF s = <<>> \/ DigitValue(Head(s)) < 0 THEN acc
    ELSE Digits(Tail(s), 10 * acc + DigitValue(Head(s)))

\* Number.parseInt(s, 10): white space, a sign, then digits; the rest is ignored
parseInt(s) ==
    LET t == TrimStart(s)
        signed == t # <<>> /\ Head(t) \in {"-", "+"}
        digits == IF signed THEN Tail(t) ELSE t
    IN  IF digits = <<>> \/ DigitValue(Head(digits)) < 0 THEN NaN
        ELSE IF signed /\ Head(t) = "-" THEN Number(-Digits(digits, 0))
        ELSE Number(Digits(digits, 0))

\* Date.parse(s) in milliseconds, for the HTTP dates of the model
DateParse(s) ==
    IF s = <<"Thu, 01 Jan 1970 00:00:02 GMT">> THEN Number(2000)
    ELSE IF s = <<"Thu, 01 Jan 1970 00:00:03 GMT">> THEN Number(3000)
    ELSE NaN

Max(a, b) == IF a >= b THEN a ELSE b

\* Math.floor(ms / 1000): a retry window rounded down
parseRetryAfterSecondsFloor(headers, t) ==
    LET headerValue == HeadersGet(headers, "retry-after")
    IN  IF ~Truthy(headerValue) THEN NoNumber
        ELSE LET numeric == parseInt(headerValue.s)
                 parsedDate == DateParse(headerValue.s)
             IN  IF numeric.k = "number" THEN Number(Max(numeric.n, 0))
                 ELSE IF parsedDate.k = "number"
                 THEN LET deltaMs == parsedDate.n - t
                      IN  IF deltaMs > 0 THEN Number(deltaMs \div 1000) ELSE Number(0)
                 ELSE NoNumber

\* t is what Date.now() returns
parseRetryAfterSeconds(headers, t) ==
    LET headerValue == HeadersGet(headers, "retry-after")
    IN  IF ~Truthy(headerValue) THEN NoNumber
        ELSE LET numeric == parseInt(headerValue.s)
                 parsedDate == DateParse(headerValue.s)
             IN  IF numeric.k = "number" THEN Number(Max(numeric.n, 0))
                 ELSE IF parsedDate.k = "number"
                 THEN LET deltaMs == parsedDate.n - t
                          \* Math.ceil(deltaMs / 1000) for deltaMs > 0
                      IN  IF deltaMs > 0 THEN Number((deltaMs + 999) \div 1000)
                          ELSE Number(0)
                 ELSE NoNumber

----------------------------------------------------------------------------
(* sendEmail.                                                               *)

Nothing == [k |-> "nothing"]
NoResponse == [status |-> 0, statusText |-> Undefined, headers |-> <<>>, body |-> <<>>]

\* a value of unknown type the client hands on: nothing, a text or a JSON value
NoData == [k |-> "undefined", text |-> <<>>, json |-> JUndefined]
TextData(text) == [k |-> "text", text |-> text, json |-> JUndefined]
JsonData(json) == [k |-> "json", text |-> <<>>, json |-> json]

\* What a call ends with: the value returned or the error thrown.  The keys a
\* kind does not have are undefined.
NoOutcome ==
    [kind |-> "none", message |-> <<>>, status |-> 0, statusText |-> Undefined,
     requestId |-> Undefined, retryAfterSeconds |-> NoNumber, headers |-> {},
     details |-> NoData, id |-> Undefined, data |-> NoData]
TypeError(message) == [NoOutcome EXCEPT !.kind = "TypeError", !.message = message]
\* the value fetchImpl or response.text() rejected with
TransportFailure ==
    [NoOutcome EXCEPT !.kind = "TransportFailure", !.message = <<"fetch failed">>]
SendEmailResponse(status, id, data) ==
    [NoOutcome EXCEPT !.kind = "SendEmailResponse", !.status = status,
                      !.id = id, !.data = data]
\* new MailChannelsError(message, init) with an options bag (errors.ts), as the
\* value sendEmail throws
MailChannelsError(message, init) ==
    [NoOutcome EXCEPT !.kind = "MailChannelsError", !.message = message,
                      !.status = init.status, !.statusText = init.statusText,
                      !.requestId = init.requestId,
                      !.retryAfterSeconds = init.retryAfterSeconds,
                      !.headers = init.headers,
                      !.details = init.details]

\* the response of the test suite to a request: a JSON body with an id on
\* success, with a message otherwise
PlainResponse(status) ==
    [status |-> status,
     statusText |-> IF status = 200 THEN Str(<<"OK">>) ELSE Str(<<"Error">>),
     headers |-> << <<"content-type", <<"application/json">> >> >>,
     body |-> IF status = 200
              THEN <<"{", "\"", "id", "\"", ":", "\"", "message-id", "\"", "}">>
              ELSE <<"{", "\"", "message", "\"", ":", "\"", "bad", "\"", "}">>]

\* response.ok taken to be true of every status below 400
OkBelow400(r) == r.status \in 200..399

\* response.ok
Ok(r) == r.status \in 200..299

\* The statements before the fetch call with the validation first, applied to
\* the payload as the caller passed it.
SendEmailThrowsValidateFirst(c, p) ==
    LET invalid == validateSendRequest(p)
    IN  IF invalid # <<>> THEN invalid
        ELSE IF ApplyDkimThrows(p) # <<>> THEN ApplyDkimThrows(p)
        ELSE IF ~UrlParses(c.baseUrl) THEN <<"Invalid URL">>
        ELSE <<>>

\* What the statements before the fetch call throw (lines 449-452): the merge,
\* the validation of the merged payload, then new URL.
SendEmailThrows(c, p) ==
    IF ApplyDkimThrows(p) # <<>> THEN ApplyDkimThrows(p)
    ELSE LET invalid == validateSendRequest(applyDkimDefaults(c.dkim, p))
         IN  IF invalid # <<>> THEN invalid
             ELSE IF ~UrlParses(c.baseUrl) THEN <<"Invalid URL">>
             ELSE <<>>

\* sendEmail up to its first await
SendEmail(p, options) ==
    LET thrown == SendEmailThrows(client, p)
    IN  /\ payload' = p
        /\ normalizedPayload' =
                IF ApplyDkimThrows(p) # <<>> THEN Nothing
                ELSE applyDkimDefaults(client.dkim, p)
        /\ IF thrown # <<>>
           THEN /\ outcome' = TypeError(thrown)
                /\ pc' = "done"
                /\ UNCHANGED <<request, fetchCalls>>
           ELSE /\ request' = BuildRequest(client, normalizedPayload', options)
                /\ fetchCalls' = fetchCalls + 1
                /\ pc' = "fetch"
                /\ UNCHANGED outcome
        /\ callOptions' = options
        /\ UNCHANGED <<client, response, vIn, vOut, now>>
        /\ UNCHANGED <<errorVars, config, held, rejection, calls>>

\* the caller's calls: the payload of the tests with up to two keys replaced, or
\* that payload as it is with options
Call ==
    /\ client.built
    /\ pc = "idle"
    /\ \/ \E q \in {BasePayload} \cup Edits(BasePayload) :
            \E p \in {q} \cup Edits(q) : SendEmail(p, DefaultCallOptions)
       \/ \E options \in CallOptions : SendEmail(BasePayload, options)

\* await this.fetchImpl(...) resolves
FetchResolves ==
    /\ pc = "fetch"
    /\ \E status \in Statuses : response' = PlainResponse(status)
    /\ pc' = "text"
    /\ UNCHANGED <<client, payload, normalizedPayload, request, fetchCalls, outcome,
                   vIn, vOut, now>>
    /\ UNCHANGED <<errorVars, config, restVars>>

\* the values fetchImpl or response.text() may reject with: a failure of the
\* transport, the TypeError fetch reports a network failure with, an abort
Failures ==
    {TransportFailure,
     TypeError(<<"fetch failed">>),
     [NoOutcome EXCEPT !.kind = "AbortError",
                       !.message = <<"This operation was aborted">>]}

\* an await of sendEmail whose promise rejects, handled as if a catch block
\* turned the reason into a TypeError
AwaitRejectsWrapped(reason) == TypeError(<<"request failed">> \o reason.message)

\* An await of sendEmail whose promise rejects: no try statement surrounds the
\* awaits, so sendEmail rejects with the reason itself.
AwaitRejects(reason) == reason

\* await this.fetchImpl(...) rejects
FetchRejects ==
    /\ pc = "fetch"
    /\ \E reason \in Failures :
          /\ rejection' = reason
          /\ outcome' = AwaitRejects(reason)
    /\ pc' = "done"
    /\ UNCHANGED <<client, payload, normalizedPayload, request, fetchCalls, response,
                   vIn, vOut, now>>
    /\ UNCHANGED <<errorVars, config, held, callOptions, calls>>

\* contentType?.includes("application/json")
DeclaresJson(contentType) ==
    IsString(contentType) /\ \E i \in DOMAIN contentType.s : contentType.s[i] = "application/json"

\* the body handed to JSON.parse whatever the content type
ParsedBodyAnyType(r) ==
    IF Len(r.body) > 0 THEN JsonParse(r.body).value ELSE JUndefined

\* parsedBody (lines 475-484): undefined unless the body is parsed
ParsedBody(r) ==
    IF Len(r.body) > 0 /\ DeclaresJson(HeadersGet(r.headers, "content-type"))
    THEN JsonParse(r.body).value
    ELSE JUndefined

\* the error path with a message extraction that does not return: no error is
\* thrown and nothing is returned
ErrorOfUnsettled(r, t) == NoOutcome

\* the error path (lines 486-506)
ErrorOf(r, t) ==
    LET parsedBody == ParsedBody(r)
        statusText == IF hasText(r.statusText) THEN Str(Trim(r.statusText.s))
                      ELSE Undefined
        details == IF parsedBody.t \notin {"undefined", "null"} THEN JsonData(parsedBody)
                   ELSE IF Len(r.body) > 0 THEN TextData(r.body)
                   ELSE NoData
    IN  MailChannelsError(
            deriveErrorMessage(r.status, statusText, parsedBody, r.body),
            [status |-> r.status,
             statusText |-> statusText,
             requestId |-> extractRequestId(r.headers),
             retryAfterSeconds |-> parseRetryAfterSeconds(r.headers, t),
             headers |-> serializeHeaders(r.headers),
             details |-> details])

\* the success path (lines 508-529)
ResultOf(r) ==
    LET parsedBody == ParsedBody(r)
        \* Object.keys(parsedBody).length
        KeyCount == IF parsedBody.t = "array" THEN Len(parsedBody.items)
                    ELSE Cardinality(parsedBody.members)
        bodyId == Get(parsedBody, <<"id">>)
        responseId == IF IsObject(parsedBody) /\ bodyId.t = "string"
                      THEN Str(bodyId.s) ELSE Undefined
        responseData ==
            IF IsObject(parsedBody)
            THEN IF KeyCount > (IF Truthy(responseId) THEN 1 ELSE 0)
                 THEN JsonData(parsedBody) ELSE NoData
            ELSE IF Len(r.body) > 0 THEN TextData(r.body)
            ELSE NoData
    IN  SendEmailResponse(r.status,
                          IF Truthy(responseId) THEN responseId ELSE Undefined,
                          responseData)

\* what sendEmail ends with once the body text is there (lines 475-529); t is
\* what Date.now() returns
Normalize(r, t) == IF Ok(r) THEN ResultOf(r) ELSE ErrorOf(r, t)

\* the call reaches Date.now() (line 87): the response is an error whose
\* retry-after header is no number but a date
ReadsClock(r) ==
    LET headerValue == HeadersGet(r.headers, "retry-after")
    IN  /\ ~Ok(r)
        /\ Truthy(headerValue)
        /\ parseInt(headerValue.s).k # "number"
        /\ DateParse(headerValue.s).k = "number"

\* no MailChannelsError has been constructed
NoError == [kind |-> "none", status |-> 0, headers |-> 0, init |-> {}, details |-> NoData]

\* An object in memory that maps header names to values: whether it is frozen
\* and its entries.  objects[ref] is the object of the reference ref.
HeaderMap(frozen, entries) == [frozen |-> frozen, entries |-> entries]

\* map[name] = value: a write to a frozen object changes nothing
Write(objs, ref, name, value) ==
    IF objs[ref].frozen THEN objs
    ELSE [objs EXCEPT ![ref].entries = Spread(@, {<<name, value>>})]

\* this.headers = headers ?? {}: the map passed in is kept as it is
ConstructHeadersAliased(objs, source) ==
    IF source = 0 THEN [objects |-> Append(objs, HeaderMap(FALSE, {})), ref |-> Len(objs) + 1]
    ELSE [objects |-> objs, ref |-> source]

\* this.headers = Object.freeze({ ...(headers ?? {}) }) (errors.ts:90); source is
\* the reference of the map passed in, 0 when init.headers is undefined
ConstructHeaders(objs, source) ==
    [objects |-> Append(objs, HeaderMap(TRUE, IF source = 0 THEN {}
                                              ELSE objs[source].entries)),
     ref |-> Len(objs) + 1]

\* throw new MailChannelsError(message, {...}) of sendEmail (lines 498-505):
\* serializeHeaders builds the map that is passed in
ThrowError(thrown) ==
    LET made == ConstructHeaders(Append(objects, HeaderMap(FALSE, thrown.headers)),
                                 Len(objects) + 1)
    IN  /\ objects' = made.objects
        /\ error' = [kind |-> "sendEmail", status |-> thrown.status,
                     headers |-> made.ref, init |-> thrown.headers,
                     details |-> thrown.details]
        /\ callerMap' = 0

\* await response.text() resolves
TextResolves ==
    /\ pc = "text"
    /\ IF ReadsClock(response)
       THEN \E t \in Times : now' = t /\ outcome' = Normalize(response, t)
       ELSE now' = now /\ outcome' = Normalize(response, now)
    /\ IF outcome'.kind = "MailChannelsError"
       THEN ThrowError(outcome')
       ELSE UNCHANGED errorVars
    /\ UNCHANGED <<config, restVars>>
    /\ pc' = "done"
    /\ UNCHANGED <<client, payload, normalizedPayload, request, fetchCalls, response,
                   vIn, vOut>>

\* await response.text() rejects
TextRejects ==
    /\ pc = "text"
    /\ \E reason \in Failures :
          /\ rejection' = reason
          /\ outcome' = AwaitRejects(reason)
    /\ pc' = "done"
    /\ UNCHANGED <<client, payload, normalizedPayload, request, fetchCalls, response,
                   vIn, vOut, now>>
    /\ UNCHANGED <<errorVars, config, held, callOptions, calls>>

\* the call is over; the client is ready for the next one
Settled ==
    /\ pc = "done"
    /\ pc' = "idle"
    /\ payload' = Nothing
    /\ normalizedPayload' = Nothing
    /\ request' = NoRequest
    /\ fetchCalls' = 0
    /\ response' = NoResponse
    /\ outcome' = NoOutcome
    /\ objects' = <<>>
    /\ error' = NoError
    /\ callerMap' = 0
    /\ callOptions' = Nothing
    /\ rejection' = Nothing
    /\ UNCHANGED <<client, vIn, vOut, now, config, held, calls>>

Init ==
    /\ client \in {MailChannelsClient(options) : options \in ClientOptions}
    /\ pc = "idle"
    /\ payload = Nothing
    /\ normalizedPayload = Nothing
    /\ request = NoRequest
    /\ fetchCalls = 0
    /\ response = NoResponse
    /\ outcome = NoOutcome
    /\ vIn = Nothing
    /\ vOut = <<>>
    /\ now = 0
    /\ objects = <<>>
    /\ error = NoError
    /\ callerMap = 0
    /\ config = Nothing
    /\ held = Nothing
    /\ callOptions = Nothing
    /\ rejection = Nothing
    /\ calls = <<>>

Next ==
    \/ Call
    \/ FetchResolves
    \/ FetchRejects
    \/ TextResolves
    \/ TextRejects
    \/ Settled

Spec == Init /\ [][Next]_vars

----------------------------------------------------------------------------
(* sendEmail on the payload of the tests, answered by the responses of a    *)
(* MailChannels endpoint or of a proxy in front of it.                      *)

\* JSON texts
Quote(s) == <<"\"">> \o s \o <<"\"">>
Pair(key, text) == Quote(<<key>>) \o <<":">> \o text
RECURSIVE Join(_)
Join(texts) ==
    IF texts = <<>> THEN <<>>
    ELSE IF Len(texts) = 1 THEN texts[1]
    ELSE texts[1] \o <<",">> \o Join(Tail(texts))
Obj(pairs) == <<"{">> \o Join(pairs) \o <<"}">>
Arr(texts) == <<"[">> \o Join(texts) \o <<"]">>

\* a detail under n nested error objects
RECURSIVE Nested(_)
Nested(n) ==
    IF n = 0 THEN Obj(<<Pair("detail", Quote(<<" ", "deep", " ">>))>>)
    ELSE Obj(<<Pair("error", Nested(n - 1))>>)

\* the bodies of answers the service gives: those of a success first, then
\* those of a failure
Bodies ==
    {<<>>,
     <<" ">>,
     <<"accepted">>,
     <<"not-json">>,
     <<"{">>,
     Obj(<<>>),
     Obj(<<Pair("id", Quote(<<"x">>))>>),
     Obj(<<Pair("id", Quote(<<"message-id">>)), Pair("ok", <<"true">>)>>),
     Obj(<<Pair("ok", <<"true">>)>>),
     Obj(<<Pair("id", Quote(<<>>))>>),
     Obj(<<Pair("id", <<"5">>)>>),
     Obj(<<Pair("id", <<"5">>), Pair("id", Quote(<<"y">>))>>),
     <<" ">> \o Obj(<<Pair("id", Quote(<<"x">>))>>) \o <<" ">>,
     Arr(<<>>),
     Arr(<<Quote(<<"a">>)>>),
     Arr(<<Quote(<<"a">>), <<",">> >>),
     <<"null">>,
     <<"false">>,
     <<"42">>,
     Quote(<<"queued">>)}
    \cup
    {Obj(<<Pair("message", Quote(<<" ", "boom", " ">>))>>),
     Obj(<<Pair("message", Quote(<<" ">>))>>),
     Obj(<<Pair("message", Quote(<<" ">>)), Pair("error", Quote(<<"bad">>))>>),
     Obj(<<Pair("message", <<"5">>), Pair("detail", Quote(<<"d">>))>>),
     Obj(<<Pair("detail", Quote(<<"d">>)), Pair("error_description", Quote(<<"ed">>))>>),
     Obj(<<Pair("error", Obj(<<Pair("message", Quote(<<"nested">>))>>)),
           Pair("detail", Quote(<<"top">>))>>),
     Obj(<<Pair("error", Obj(<<Pair("foo", <<"1">>)>>)),
           Pair("errors", Arr(<<Quote(<<"listed">>)>>))>>),
     Obj(<<Pair("error", Obj(<<Pair("message", Quote(<<"nested">>))>>)),
           Pair("errors", Arr(<<Quote(<<"listed">>)>>))>>),
     Obj(<<Pair("error", <<"null">>)>>),
     Obj(<<Pair("error", Arr(<<Quote(<<"x">>)>>))>>),
     Obj(<<Pair("errors", Arr(<<>>))>>),
     Obj(<<Pair("errors", Quote(<<"none">>))>>),
     Obj(<<Pair("errors", Arr(<<Quote(<<>>), Quote(<<" ">>), Quote(<<" ", "first", " ">>),
                                Quote(<<"second">>)>>))>>),
     Obj(<<Pair("errors", Arr(<<Obj(<<Pair("foo", <<"1">>)>>), <<"null">>, <<"5">>,
                                Obj(<<Pair("message", Quote(<<"inner">>))>>),
                                Quote(<<"late">>)>>))>>),
     Obj(<<Pair("errors", Arr(<<Obj(<<Pair("errors",
                                          Arr(<<Quote(<<" ">>),
                                                Obj(<<Pair("error", Quote(<<"deepest">>))>>)>>))>>),
                                Quote(<<"late">>)>>))>>),
     Arr(<<Obj(<<Pair("message", Quote(<<"in array">>))>>)>>)}
    \cup {Nested(n) : n \in 0..MaxDepth}

ResponseStatuses == {200, 204, 299, 300, 400, 429}

\* every body under every status, status text and content type; every set of
\* headers under every status
Responses ==
    LET
        RequestIdHeaders ==
            {<<>>,
             << <<"X-Request-Id", <<" ", "req-1", " ">> >> >>,
             << <<"x-request-id", <<" ">> >>, <<"x-mc-request-id", <<"mc-1">> >> >>,
             << <<"x-request-id", <<>> >>, <<"MC-Request-Id", <<"short">> >>, <<"cf-ray", <<"ray">> >> >>,
             << <<"CF-Ray", <<"ray">> >>, <<"x-trace", <<"t">> >> >>,
             << <<"cf-ray", <<"ray">> >>, <<"x-request-id", <<"req-2">> >> >>,
             << <<"x-request-id", <<" ">> >>, <<"x-mc-request-id", <<>> >>,
                <<"mc-request-id", <<" ">> >>, <<"cf-ray", <<>> >> >>,
             << <<"x-trace", <<"req-3">> >> >>}

        RetryAfterHeaders ==
            {<<>>} \cup
            { << <<name, value>> >> :
                name \in {"retry-after", "Retry-After"},
                value \in {<<>>, <<" ">>, <<"0">>, <<"1", "2", "0">>, <<"-", "5">>, <<"+", "3">>,
                           <<" ", "7">>, <<"1", ".", "5">>, <<"1", "2", "a", "b", "c">>,
                           <<"s", "o", "o", "n">>, <<"-">>,
                           <<"Thu, 01 Jan 1970 00:00:02 GMT">>,
                           <<"Thu, 01 Jan 1970 00:00:03 GMT">>}}
    IN
    [status : ResponseStatuses,
     statusText : {Str(<<>>), Str(<<" ">>), Str(<<"Bad Request">>),
                   Str(<<" ", "Too", " ", "Many", " ">>)},
     headers : {<<>>,
                << <<"content-type", <<"application/json">> >> >>,
                << <<"Content-Type",
                     <<"application/json", ";", " ", "charset=utf-8">> >> >>,
                << <<"content-type", <<"text/plain">> >> >>},
     body : Bodies]
    \cup {[status |-> status,
            statusText |-> Str(<<"Too Many Requests">>),
            headers |-> ids \o retry \o << <<"content-type", <<"application/json">> >> >>,
            body |-> Obj(<<Pair("message", Quote(<<"slow down">>))>>)] :
            status \in ResponseStatuses, ids \in RequestIdHeaders,
            retry \in RetryAfterHeaders}

\* the call of the tests
Send ==
    /\ client.built
    /\ pc = "idle"
    /\ SendEmail(BasePayload, DefaultCallOptions)

\* await this.fetchImpl(...) resolves with one of the responses
FetchAnswers ==
    /\ pc = "fetch"
    /\ \E r \in Responses : response' = r
    /\ pc' = "text"
    /\ UNCHANGED <<client, payload, normalizedPayload, request, fetchCalls, outcome,
                   vIn, vOut, now>>
    /\ UNCHANGED <<errorVars, config, restVars>>

InitResponse ==
    /\ client = MailChannelsClient(BaseOptions)
    /\ pc = "idle"
    /\ payload = Nothing
    /\ normalizedPayload = Nothing
    /\ request = NoRequest
    /\ fetchCalls = 0
    /\ response = NoResponse
    /\ outcome = NoOutcome
    /\ vIn = Nothing
    /\ vOut = <<>>
    /\ now = 0
    /\ objects = <<>>
    /\ error = NoError
    /\ callerMap = 0
    /\ config = Nothing
    /\ held = Nothing
    /\ callOptions = Nothing
    /\ rejection = Nothing
    /\ calls = <<>>

NextResponse ==
    \/ Send
    \/ FetchAnswers
    \/ FetchRejects
    \/ TextResolves
    \/ TextRejects
    \/ Settled

SpecResponse == InitResponse /\ [][NextResponse]_vars

\* The same calls with the continuation of await response.text() run: the read
\* of the body of a response settles, and the event loop then resumes sendEmail.
\* Nothing makes the transport itself settle.
SpecLive ==
    /\ InitResponse
    /\ [][NextResponse]_vars
    /\ WF_vars(TextRejects \/ TextResolves)

----------------------------------------------------------------------------
(* MailChannelsError (errors.ts): the errors sendEmail throws and the errors *)
(* a caller constructs, with the writes a caller may try afterwards.        *)

\* the header maps a caller passes to the constructor
CallerMaps ==
    {{},
     {<<"x-request-id", <<"r">> >>},
     {<<"X-Trace", <<"t">> >>, <<"retry-after", <<"1">> >>}}

\* new MailChannelsError(message, status, details)
NewLegacyError ==
    /\ pc = "idle"
    /\ error.kind = "none"
    /\ \E status \in Statuses, details \in {NoData, TextData(<<"raw">>)} :
          \* this.headers = Object.freeze({}) (errors.ts:78)
          LET made == [objects |-> Append(objects, HeaderMap(TRUE, {})),
                       ref |-> Len(objects) + 1]
          IN  /\ objects' = made.objects
              /\ error' = [kind |-> "legacy", status |-> status, headers |-> made.ref,
                           init |-> {}, details |-> details]
    /\ UNCHANGED <<client, pc, payload, normalizedPayload, request, fetchCalls,
                   response, outcome, now, vIn, vOut, config, restVars, callerMap>>

\* new MailChannelsError(message, { status, headers }) with a map of the caller,
\* which the caller keeps
NewOptionsError ==
    /\ pc = "idle"
    /\ error.kind = "none"
    /\ \E status \in Statuses, entries \in CallerMaps :
          LET passed == Append(objects, HeaderMap(FALSE, entries))
              made == ConstructHeaders(passed, Len(passed))
          IN  /\ objects' = made.objects
              /\ callerMap' = Len(passed)
              /\ error' = [kind |-> "options", status |-> status, headers |-> made.ref,
                           init |-> entries, details |-> NoData]
    /\ UNCHANGED <<client, pc, payload, normalizedPayload, request, fetchCalls,
                   response, outcome, now, vIn, vOut, config, restVars>>

\* new MailChannelsError(message, { status }) without headers
NewBareError ==
    /\ pc = "idle"
    /\ error.kind = "none"
    /\ \E status \in Statuses :
          LET made == ConstructHeaders(objects, 0)
          IN  /\ objects' = made.objects
              /\ error' = [kind |-> "options", status |-> status, headers |-> made.ref,
                           init |-> {}, details |-> NoData]
    /\ UNCHANGED <<client, pc, payload, normalizedPayload, request, fetchCalls,
                   response, outcome, now, vIn, vOut, config, restVars, callerMap>>

WrittenNames == {"x-request-id", "x-new"}

\* error.headers[name] = value, tried by whoever holds the error
WriteErrorHeaders ==
    /\ error.kind # "none"
    /\ \E name \in WrittenNames : objects' = Write(objects, error.headers, name, <<"w">>)
    /\ UNCHANGED <<client, pc, payload, normalizedPayload, request, fetchCalls,
                   response, outcome, now, vIn, vOut, config, restVars, error, callerMap>>

\* the caller writes to the map it passed to the constructor
WriteCallerMap ==
    /\ callerMap # 0
    /\ \E name \in WrittenNames : objects' = Write(objects, callerMap, name, <<"w">>)
    /\ UNCHANGED <<client, pc, payload, normalizedPayload, request, fetchCalls,
                   response, outcome, now, vIn, vOut, config, restVars, error, callerMap>>

\* the caller drops an error it constructed
Discard ==
    /\ pc = "idle"
    /\ error.kind # "none"
    /\ objects' = <<>>
    /\ error' = NoError
    /\ callerMap' = 0
    /\ UNCHANGED <<client, pc, payload, normalizedPayload, request, fetchCalls,
                   response, outcome, now, vIn, vOut, config, restVars>>

\* the call of the tests, made while no other error is held (error is the one
\* error the model follows)
SendAlone ==
    /\ error.kind = "none"
    /\ Send

NextError ==
    \/ SendAlone
    \/ FetchAnswers
    \/ FetchRejects
    \/ TextResolves
    \/ TextRejects
    \/ Settled
    \/ NewLegacyError
    \/ NewOptionsError
    \/ NewBareError
    \/ WriteErrorHeaders
    \/ WriteCallerMap
    \/ Discard

SpecError == InitResponse /\ [][NextError]_vars

----------------------------------------------------------------------------
(* new MailChannelsClient(options) on the options a caller may pass,       *)
(* whatever their types.                                                    *)

ConstructionOptions ==
    [k : {"object", "undefined", "string"},
     apiKey : {Undefined, NotAString, Str(<<>>), Str(<<" ">>), Str(<<" ", "k", " ">>)},
     dkim : [k : {"object", "undefined", "null"},
             domain : {Undefined, NotAString, Str(<<" ">>), Str(<<" ", "d", " ">>)},
             selector : {Undefined, NotAString, Str(<<" ">>), Str(<<"s">>)},
             privateKey : {Undefined, NotAString, Str(<<>>), Str(<<"k">>)}],
     baseUrl : {Undefined, NotAString, Str(<<"https://example.com", "/", "api">>)},
     defaultHeaders : {{}},
     fetchImplementation : {"function", "undefined", "string"},
     ambientFetch : BOOLEAN]

\* the constructor runs: it returns the client or throws a TypeError
Construct ==
    /\ config = Nothing
    /\ held = Nothing
    /\ callOptions = Nothing
    /\ rejection = Nothing
    /\ calls = <<>>
    /\ \E options \in ConstructionOptions :
          /\ config' = options
          /\ client' = MailChannelsClient(options)
          /\ outcome' = IF ConstructorThrows(options) # <<>>
                        THEN TypeError(ConstructorThrows(options))
                        ELSE NoOutcome
    /\ UNCHANGED <<pc, payload, normalizedPayload, request, fetchCalls, response,
                   now, vIn, vOut, errorVars, restVars>>

InitConstruct ==
    /\ client = NoClient
    /\ pc = "idle"
    /\ payload = Nothing
    /\ normalizedPayload = Nothing
    /\ request = NoRequest
    /\ fetchCalls = 0
    /\ response = NoResponse
    /\ outcome = NoOutcome
    /\ vIn = Nothing
    /\ vOut = <<>>
    /\ now = 0
    /\ objects = <<>>
    /\ error = NoError
    /\ callerMap = 0
    /\ config = Nothing
    /\ held = Nothing
    /\ callOptions = Nothing
    /\ rejection = Nothing
    /\ calls = <<>>

NextConstruct == Construct

SpecConstruct == InitConstruct /\ [][NextConstruct]_vars

----------------------------------------------------------------------------
(* A client constructed from options the constructor accepts, called with  *)
(* every combination of call options, while the caller goes on writing to  *)
(* the objects it passed to the constructor.                                *)

\* the options of the tests with an API key, a base URL and default headers of
\* every form
ConfigOptions ==
    {[BaseOptions EXCEPT !.apiKey = apiKey, !.baseUrl = baseUrl,
                         !.defaultHeaders = defaultHeaders] :
        apiKey \in {Str(<<"k">>), Str(<<" ", "k", " ">>)},
        baseUrl \in {Undefined,
                     Str(<<"https://example.com", "/", "api">>),
                     Str(<<"https://example.com", "/", "api", "/">>),
                     Str(<<"https://example.com", "/", "api", "/", "/">>),
                     Str(<<" ", "https://example.com", "/", "api", " ">>)},
        defaultHeaders \in {{},
                            {<<"X-Custom", <<"value">> >>},
                            {<<"content-type", <<"text/plain">> >>},
                            {<<"X-Api-Key", <<"other">> >>, <<"Content-Type", <<"text/plain">> >>},
                            {<<"Idempotency-Key", <<"default">> >>}}}

\* object[name]
Field(object, name) == (CHOOSE e \in object.entries : e[1] = name)[2]

\* this.defaultHeaders = options.defaultHeaders: the map of the caller is kept
ConstructFieldsAliased(objs, options) ==
    [objects |-> Append(objs,
                        HeaderMap(FALSE,
                                  {<<name, Trim(Field(objs[options.dkim], name))>> :
                                      name \in {"domain", "selector", "privateKey"}})),
     defaultHeaders |-> options.defaultHeaders,
     dkim |-> Len(objs) + 1]

\* The two objects the constructor makes (lines 422-429): a copy of
\* options.defaultHeaders and a dkim object of the trimmed values.  options
\* holds the references of the caller's defaultHeaders map and dkim object.
ConstructFields(objs, options) ==
    [objects |-> objs \o
                 <<HeaderMap(FALSE, objs[options.defaultHeaders].entries),
                   HeaderMap(FALSE,
                             {<<name, Trim(Field(objs[options.dkim], name))>> :
                                 name \in {"domain", "selector", "privateKey"}})>>,
     defaultHeaders |-> Len(objs) + 1,
     dkim |-> Len(objs) + 2]

\* the client with this.defaultHeaders and this.dkim read through their
\* references
Fields(c, h) ==
    [c EXCEPT !.defaultHeaders = h.objects[h.this.defaultHeaders].entries,
              !.dkim = [domain |-> Str(Field(h.objects[h.this.dkim], "domain")),
                        selector |-> Str(Field(h.objects[h.this.dkim], "selector")),
                        privateKey |-> Str(Field(h.objects[h.this.dkim], "privateKey"))]]

\* sendEmail on the payload of the tests with options
SendWith ==
    /\ client.built
    /\ pc = "idle"
    /\ \E options \in CallOptions : SendEmail(BasePayload, options)

\* after the construction the caller writes to the defaultHeaders map or to the
\* dkim object it passed in
CallerWrites ==
    /\ \E write \in {<<"defaultHeaders", "X-Api-Key", <<"written">> >>,
                      <<"defaultHeaders", "X-Late", <<"written">> >>,
                      <<"dkim", "domain", <<"written">> >>} :
          held' = [held EXCEPT !.objects = Write(@, held.options[write[1]],
                                                 write[2], write[3])]
    /\ client' = Fields(client, held')
    /\ UNCHANGED <<pc, payload, normalizedPayload, request, fetchCalls, response,
                   outcome, now, vIn, vOut, errorVars, config, callOptions,
                   rejection, calls>>

InitConfig ==
    /\ config \in ConfigOptions
    /\ LET objs == <<HeaderMap(FALSE, config.defaultHeaders),
                     HeaderMap(FALSE, {<<"domain", config.dkim.domain.s>>,
                                       <<"selector", config.dkim.selector.s>>,
                                       <<"privateKey", config.dkim.privateKey.s>>})>>
           options == [defaultHeaders |-> 1, dkim |-> 2]
           made == ConstructFields(objs, options)
       IN  held = [objects |-> made.objects,
                   options |-> options,
                   this |-> [defaultHeaders |-> made.defaultHeaders,
                             dkim |-> made.dkim]]
    /\ client = Fields(MailChannelsClient(config), held)
    /\ pc = "idle"
    /\ payload = Nothing
    /\ normalizedPayload = Nothing
    /\ request = NoRequest
    /\ fetchCalls = 0
    /\ response = NoResponse
    /\ outcome = NoOutcome
    /\ vIn = Nothing
    /\ vOut = <<>>
    /\ now = 0
    /\ objects = <<>>
    /\ error = NoError
    /\ callerMap = 0
    /\ callOptions = Nothing
    /\ rejection = Nothing
    /\ calls = <<>>

NextConfig ==
    \/ SendWith
    \/ CallerWrites
    \/ FetchResolves
    \/ FetchRejects
    \/ TextResolves
    \/ TextRejects
    \/ Settled

SpecConfig == InitConfig /\ [][NextConfig]_vars

----------------------------------------------------------------------------
(* Two sendEmail calls in flight on one client.  Each call has its own       *)
(* locals (calls[i]); the fields of the client are what the calls share.     *)
(* The steps of the two calls interleave at the awaits.                      *)

\* the number of calls in flight at once
MaxCalls == 2

\* the locals of a call that has not been made
IdleCall ==
    [pc |-> "idle", payload |-> Nothing, normalizedPayload |-> Nothing,
     options |-> Nothing, request |-> NoRequest, response |-> NoResponse,
     rejection |-> Nothing, outcome |-> NoOutcome]

\* the fields of the client after a sendEmail that builds its headers on
\* this.defaultHeaders: const headers = this.defaultHeaders; then the key of
\* the call is written into it
FieldsAfterSendShared(c, options) ==
    IF Truthy(options.idempotencyKey)
    THEN [c EXCEPT !.defaultHeaders =
                        Spread(@, {<<"Idempotency-Key", options.idempotencyKey.s>>})]
    ELSE c

\* The fields of the client after the statements of sendEmail (lines 445-530):
\* the fields are readonly (lines 362-372) and the statements assign to locals
\* only, the headers being a new object literal (lines 457-461).
FieldsAfterSend(c, options) == c

\* sendEmail up to its first await, as a call of its own
Issue(i) ==
    /\ calls[i].pc = "idle"
    /\ \E p \in {BasePayload,
                 [BasePayload EXCEPT !.subject = Str(<<"u">>)],
                 [BasePayload EXCEPT !.dkim_domain = Str(<<"y">>)],
                 [BasePayload EXCEPT !.from = NullAddress]},
          options \in {DefaultCallOptions,
                       [DefaultCallOptions EXCEPT !.dryRun = TRUE],
                       [DefaultCallOptions EXCEPT !.idempotencyKey = Str(<<"i">>)],
                       [DefaultCallOptions EXCEPT !.signal = "aborted"]} :
          LET thrown == SendEmailThrows(client, p)
              normalized == IF ApplyDkimThrows(p) # <<>> THEN Nothing
                            ELSE applyDkimDefaults(client.dkim, p)
          IN  /\ calls' =
                    [calls EXCEPT ![i] =
                        IF thrown # <<>>
                        THEN [IdleCall EXCEPT !.pc = "done", !.payload = p,
                                              !.normalizedPayload = normalized,
                                              !.options = options,
                                              !.outcome = TypeError(thrown)]
                        ELSE [IdleCall EXCEPT !.pc = "fetch", !.payload = p,
                                              !.normalizedPayload = normalized,
                                              !.options = options,
                                              !.request = BuildRequest(client, normalized,
                                                                       options)]]
              /\ client' = FieldsAfterSend(client, options)
    /\ UNCHANGED <<pc, payload, normalizedPayload, request, fetchCalls, response,
                   outcome, now, vIn, vOut, errorVars, config, held, callOptions,
                   rejection>>

\* await this.fetchImpl(...) of call i resolves or rejects
FetchSettles(i) ==
    /\ calls[i].pc = "fetch"
    /\ \/ \E status \in Statuses :
            calls' = [calls EXCEPT ![i].response = PlainResponse(status),
                                   ![i].pc = "text"]
       \/ \E reason \in Failures :
            calls' = [calls EXCEPT ![i].rejection = reason,
                                   ![i].outcome = AwaitRejects(reason),
                                   ![i].pc = "done"]
    /\ UNCHANGED <<client, pc, payload, normalizedPayload, request, fetchCalls,
                   response, outcome, now, vIn, vOut, errorVars, config, held,
                   callOptions, rejection>>

\* await response.text() of call i resolves or rejects
TextSettles(i) ==
    /\ calls[i].pc = "text"
    /\ \/ calls' = [calls EXCEPT ![i].outcome = Normalize(calls[i].response, now),
                                 ![i].pc = "done"]
       \/ \E reason \in Failures :
            calls' = [calls EXCEPT ![i].rejection = reason,
                                   ![i].outcome = AwaitRejects(reason),
                                   ![i].pc = "done"]
    /\ UNCHANGED <<client, pc, payload, normalizedPayload, request, fetchCalls,
                   response, outcome, now, vIn, vOut, errorVars, config, held,
                   callOptions, rejection>>

\* call i is over and its locals are gone
Returns(i) ==
    /\ calls[i].pc = "done"
    /\ calls' = [calls EXCEPT ![i] = IdleCall]
    /\ UNCHANGED <<client, pc, payload, normalizedPayload, request, fetchCalls,
                   response, outcome, now, vIn, vOut, errorVars, config, held,
                   callOptions, rejection>>

InitConcurrent ==
    /\ config \in {BaseOptions,
                   [BaseOptions EXCEPT !.defaultHeaders =
                                           {<<"X-Custom", <<"value">> >>}]}
    /\ client = MailChannelsClient(config)
    /\ calls = [i \in (1..MaxCalls) |-> IdleCall]
    /\ pc = "idle"
    /\ payload = Nothing
    /\ normalizedPayload = Nothing
    /\ request = NoRequest
    /\ fetchCalls = 0
    /\ response = NoResponse
    /\ outcome = NoOutcome
    /\ vIn = Nothing
    /\ vOut = <<>>
    /\ now = 0
    /\ objects = <<>>
    /\ error = NoError
    /\ callerMap = 0
    /\ held = Nothing
    /\ callOptions = Nothing
    /\ rejection = Nothing

NextConcurrent ==
    \/ \E i \in (1..MaxCalls) : Issue(i)
    \/ \E i \in (1..MaxCalls) : FetchSettles(i)
    \/ \E i \in (1..MaxCalls) : TextSettles(i)
    \/ \E i \in (1..MaxCalls) : Returns(i)

SpecConcurrent == InitConcurrent /\ [][NextConcurrent]_vars

----------------------------------------------------------------------------
(* validateSendRequest applied to a payload as it stands (no merge first).  *)

\* the payload of the tests with the DKIM keys filled in
MergedBasePayload == applyDkimDefaults(NewClient(BaseOptions).dkim, BasePayload)

Validate(p) ==
    /\ vIn' = p
    /\ vOut' = validateSendRequest(p)
    /\ UNCHANGED <<client, pc, payload, normalizedPayload, request, fetchCalls,
                   response, outcome, now>>
    /\ UNCHANGED <<errorVars, config, restVars>>

InitValidate ==
    /\ client = NoClient
    /\ pc = "idle"
    /\ payload = Nothing
    /\ normalizedPayload = Nothing
    /\ request = NoRequest
    /\ fetchCalls = 0
    /\ response = NoResponse
    /\ outcome = NoOutcome
    /\ vIn = Nothing
    /\ vOut = <<>>
    /\ now = 0
    /\ objects = <<>>
    /\ error = NoError
    /\ callerMap = 0
    /\ config = Nothing
    /\ held = Nothing
    /\ callOptions = Nothing
    /\ rejection = Nothing
    /\ calls = <<>>

\* one application for each behaviour
NextValidate ==
    /\ vIn = Nothing
    /\ \E q \in {MergedBasePayload} \cup Edits(MergedBasePayload) :
            \E p \in {q} \cup Edits(q) : Validate(p)

SpecValidate == InitValidate /\ [][NextValidate]_vars

----------------------------------------------------------------------------
(* Properties of sendEmail and of the DKIM merge.                           *)

\* a string with a character that is not white space
NonBlank(v) == IsString(v) /\ \E i \in DOMAIN v.s : v.s[i] # " "

\* path occurs in message, token for token
Contains(message, path) ==
    \E n \in 0..(Len(message) - Len(path)) :
        SubSeq(message, n + 1, n + Len(path)) = path

\* the sendEmail call has run up to its first await, and the merge did not throw
Merged == pc # "idle" /\ normalizedPayload # Nothing

\* C1: in every sendEmail call on a constructed client the transport is invoked
\* zero times when the merged payload fails the structural validation, and
\* exactly once when it passes, whatever the status of the response.
C1_TransportOnceIffValid ==
    Merged =>
        IF validateSendRequest(normalizedPayload) # <<>>
        THEN fetchCalls = 0
        ELSE fetchCalls = 1

\* C2: DKIM precedence, for each of the three keys on its own: the body value is
\* the request's own value trimmed when that is a non-blank string, and the
\* client default otherwise; the value of a personalization is its own value
\* trimmed when that is a non-blank string, and the resolved body value otherwise.
ClientDefault(key) ==
    IF key = "dkim_domain" THEN client.dkim.domain
    ELSE IF key = "dkim_selector" THEN client.dkim.selector
    ELSE client.dkim.privateKey

C2_DkimPrecedence ==
    Merged =>
        \A key \in DkimKeys :
            /\ normalizedPayload[key] =
                    IF NonBlank(payload[key]) THEN Str(Trim(payload[key].s))
                    ELSE ClientDefault(key)
            /\ \A i \in DOMAIN payload.personalizations.items :
                    normalizedPayload.personalizations.items[i][key] =
                        IF NonBlank(payload.personalizations.items[i][key])
                        THEN Str(Trim(payload.personalizations.items[i][key].s))
                        ELSE normalizedPayload[key]

\* C2 witness: a body override that is padded, one personalization that overrides
\* it and one that inherits it.
C2_Witness ==
    /\ Merged
    /\ payload.dkim_domain = Str(<<" ", "x", " ">>)
    /\ normalizedPayload.dkim_domain = Str(<<"x">>)
    /\ \E i, j \in DOMAIN payload.personalizations.items :
            /\ payload.personalizations.items[i].dkim_domain = Undefined
            /\ normalizedPayload.personalizations.items[i].dkim_domain = Str(<<"x">>)
            /\ payload.personalizations.items[j].dkim_domain = Str(<<" ", "o", " ">>)
            /\ normalizedPayload.personalizations.items[j].dkim_domain = Str(<<"o">>)

\* C3: on a constructed client the merged payload has a non-blank DKIM triple in
\* the body and in every personalization, whatever DKIM values the payload
\* carries, and sendEmail never throws one of the DKIM errors of the validation.
DkimMessage(message) ==
    \E key \in DkimKeys : Contains(message, <<"." \o key>>)

C4_MergeIdempotent ==
    Merged => applyDkimDefaults(client.dkim, normalizedPayload) = normalizedPayload

\* C4 witness: a merge that changed the body and a personalization, so that the
\* second merge starts from a payload the first one produced.
C4_Witness ==
    /\ Merged
    /\ payload.dkim_domain = Str(<<" ", "x", " ">>)
    /\ payload.dkim_selector = Str(<<"y">>)
    /\ normalizedPayload # payload


\* the keys of the body and of a personalization the merge does not resolve
OtherKeys == {"from", "reply_to", "subject", "content", "attachments", "custom"}
OtherPersonalizationKeys == {"to", "cc", "bcc", "subject"}

\* the members of a JSON object but for its DKIM keys
OtherMembers(json) == {member \in json.members : member[1] \notin DkimKeys}

\* the JSON value of a key of an object that has it
MemberValue(json, key) == (CHOOSE member \in json.members : member[1] = key)[2]

----------------------------------------------------------------------------
(* Properties of the structural validation.                                 *)

\* check 1 of the validation passes: personalizations is a sequence with a block
HasPersonalizations(p) ==
    IsArray(p.personalizations) /\ p.personalizations.items # <<>>

\* C6: a payload whose personalizations is absent, is not a sequence or is empty
\* makes sendEmail fail with the validation error that personalizations must
\* contain at least one recipient block, and the transport is not invoked.
C6_PersonalizationsRequired ==
    (pc # "idle" /\ ~HasPersonalizations(payload)) =>
        /\ outcome = TypeError(<<"personalizations",
                                 " must contain at least one recipient block.">>)
        /\ fetchCalls = 0

\* The checks in the order the validation is said to make them, each with
\* whether the payload violates it and the message it raises.
Check(violated, message) == [violated |-> violated, message |-> message]

RECURSIVE Flatten(_)
Flatten(seqs) == IF seqs = <<>> THEN <<>> ELSE Head(seqs) \o Flatten(Tail(seqs))

\* an address that is no object or whose email is no non-blank string
BlankEmail(address) == address.k # "object" \/ ~NonBlank(address.email)

\* a value that is no string or is the empty string
NoText(v) == ~IsString(v) \/ v.s = <<>>

AddressChecks(l, path) ==
    IF ~IsArray(l) THEN <<>>
    ELSE [j \in DOMAIN l.items |->
            Check(BlankEmail(l.items[j]),
                  path \o <<Idx(j), ".email", " must be a non-empty string.">>)]

PersonalizationChecks(q, i) ==
    <<Check(~IsArray(q.to) \/ q.to.items = <<>>,
            <<"personalizations", Idx(i), ".to", " must contain at least one recipient.">>)>>
    \o AddressChecks(q.to, <<"personalizations", Idx(i), ".to">>)
    \o AddressChecks(q.cc, <<"personalizations", Idx(i), ".cc">>)
    \o AddressChecks(q.bcc, <<"personalizations", Idx(i), ".bcc">>)

BlockChecks(b, i) ==
    <<Check(b.k # "object" \/ ~NonBlank(b.type),
            <<"content", Idx(i), ".type", " must be a non-empty string.">>),
      Check(~IsString(b.value),
            <<"content", Idx(i), ".value", " must be a string.">>)>>

AttachmentChecks(a, i) ==
    <<Check(NoText(a.type),
            <<"attachments", Idx(i), ".type", " must be a non-empty string.">>),
      Check(NoText(a.filename),
            <<"attachments", Idx(i), ".filename", " must be a non-empty string.">>),
      Check(NoText(a.content),
            <<"attachments", Idx(i), ".content", " must be a base64 string.">>)>>

DkimChecks(fields, path) ==
    <<Check(~NonBlank(fields.dkim_domain),
            path \o <<".dkim_domain", " must be a non-empty string.">>),
      Check(~NonBlank(fields.dkim_selector),
            path \o <<".dkim_selector", " must be a non-empty string.">>),
      Check(~NonBlank(fields.dkim_private_key),
            path \o <<".dkim_private_key", " must be a non-empty string.">>)>>

OrderedChecks(p) ==
    <<Check(~HasPersonalizations(p),
            <<"personalizations", " must contain at least one recipient block.">>)>>
    \o Flatten([i \in DOMAIN p.personalizations.items |->
                    PersonalizationChecks(p.personalizations.items[i], i)])
    \o <<Check(BlankEmail(p.from), <<"from", ".email", " must be a non-empty string.">>)>>
    \o <<Check(p.reply_to.k = "object" /\ BlankEmail(p.reply_to),
               <<"reply_to", ".email", " must be a non-empty string.">>)>>
    \o <<Check(~IsArray(p.content) \/ p.content.items = <<>>,
               <<"content", " must include at least one content block.">>)>>
    \o Flatten([i \in DOMAIN p.content.items |-> BlockChecks(p.content.items[i], i)])
    \o Flatten([i \in DOMAIN p.attachments.items |->
                    AttachmentChecks(p.attachments.items[i], i)])
    \o DkimChecks(p, <<"request body">>)
    \o Flatten([i \in DOMAIN p.personalizations.items |->
                    DkimChecks(p.personalizations.items[i], <<"personalizations", Idx(i)>>)])

\* the message of the earliest violated check, the empty sequence when there is none
FirstViolated(checks) ==
    IF \A n \in DOMAIN checks : ~checks[n].violated THEN <<>>
    ELSE checks[CHOOSE n \in DOMAIN checks :
                    /\ checks[n].violated
                    /\ \A m \in 1..(n - 1) : ~checks[m].violated].message

\* C7: the validation raises the error of the earliest violated check in the
\* order (1) personalizations, (2) each personalization: to, its to addresses,
\* cc, bcc, (3) from, (4) reply_to when present, (5) content, then each block:
\* type, value, (6) each attachment: type, filename, content, (7) the DKIM keys of
\* the body, (8) the DKIM keys of each personalization; and raises nothing when
\* no check is violated.
C7_FirstFailureInOrder ==
    vIn # Nothing => vOut = FirstViolated(OrderedChecks(vIn))

\* C7 witness: a payload that violates the from check and the content check; the
\* from error is the one raised.
C7_Witness ==
    /\ vIn # Nothing
    /\ HasPersonalizations(vIn)
    /\ BlankEmail(vIn.from)
    /\ IsArray(vIn.content) /\ vIn.content.items = <<>>
    /\ vOut = <<"from", ".email", " must be a non-empty string.">>


\* the paths of the personalizations whose to list is missing or empty
MissingToPaths(p) ==
    {<<"personalizations", Idx(i), ".to">> :
        i \in {n \in DOMAIN p.personalizations.items :
                LET to == p.personalizations.items[n].to
                IN  ~IsArray(to) \/ to.items = <<>>}}

\* the paths of the blank addresses of a recipient list
BlankAddressPaths(l, path) ==
    IF ~IsArray(l) THEN {}
    ELSE {path \o <<Idx(j), ".email">> :
            j \in {n \in DOMAIN l.items : BlankEmail(l.items[n])}}

\* the paths of the address violations of a payload
AddressViolations(p) ==
    MissingToPaths(p)
    \cup UNION {LET q == p.personalizations.items[i]
                    at == <<"personalizations", Idx(i)>>
                IN  BlankAddressPaths(q.to, at \o <<".to">>)
                    \cup BlankAddressPaths(q.cc, at \o <<".cc">>)
                    \cup BlankAddressPaths(q.bcc, at \o <<".bcc">>) :
                i \in DOMAIN p.personalizations.items}
    \cup (IF BlankEmail(p.from) THEN {<<"from", ".email">>} ELSE {})
    \cup (IF p.reply_to.k = "object" /\ BlankEmail(p.reply_to)
          THEN {<<"reply_to", ".email">>} ELSE {})

\* C8: a personalization with a missing or empty to list, a blank email in a to,
\* cc or bcc list, a blank from email or a blank email of a present reply_to
\* makes sendEmail fail with a validation error and the transport is not
\* invoked; when personalizations itself is in order the message names the path
\* of one of these violations (the first failure wins).
C8_AddressValidation ==
    (pc # "idle" /\ AddressViolations(payload) # {}) =>
        /\ outcome.kind = "TypeError"
        /\ fetchCalls = 0
        /\ HasPersonalizations(payload) =>
              \E path \in AddressViolations(payload) : Contains(outcome.message, path)

\* C8 witness: the second cc address of the first personalization has an email
\* of white space only and the error names it.
C8_Witness ==
    /\ pc = "done"
    /\ HasPersonalizations(payload)
    /\ IsArray(payload.personalizations.items[1].cc)
    /\ Len(payload.personalizations.items[1].cc.items) >= 2
    /\ payload.personalizations.items[1].cc.items[2] = EmailAddress(Str(<<" ">>))
    /\ outcome = TypeError(<<"personalizations", "[0]", ".cc", "[1]", ".email",
                             " must be a non-empty string.">>)
    /\ fetchCalls = 0

\* a content block that violates a check
BadBlock(b) == b.k # "object" \/ ~NonBlank(b.type) \/ ~IsString(b.value)

\* the content of a payload violates a check
ContentViolation(p) ==
    \/ ~IsArray(p.content)
    \/ p.content.items = <<>>
    \/ \E i \in DOMAIN p.content.items : BadBlock(p.content.items[i])

\* C9: a missing or empty content list makes sendEmail fail with an error naming
\* content, a block with a blank type with one naming content[i].type, a block
\* whose value is no string with one naming content[i].value (for the first
\* offending block, once the earlier checks pass), the transport is not invoked,
\* and a block whose value is the empty string is accepted.
C9_ContentValidation ==
    pc # "idle" =>
        /\ ContentViolation(payload) =>
              outcome.kind = "TypeError" /\ fetchCalls = 0
        /\ (HasPersonalizations(payload) /\ AddressViolations(payload) = {}) =>
              /\ (~IsArray(payload.content) \/ payload.content.items = <<>>) =>
                    outcome = TypeError(<<"content",
                                          " must include at least one content block.">>)
              /\ \A i \in DOMAIN payload.content.items :
                    LET b == payload.content.items[i]
                    IN  (/\ BadBlock(b)
                         /\ \A n \in 1..(i - 1) : ~BadBlock(payload.content.items[n])) =>
                            IF b.k # "object" \/ ~NonBlank(b.type)
                            THEN Contains(outcome.message, <<"content", Idx(i), ".type">>)
                            ELSE Contains(outcome.message, <<"content", Idx(i), ".value">>)
        /\ ~ContentViolation(payload) => ~Contains(outcome.message, <<"content">>)

\* C9 witness: a payload with a block whose value is the empty string has been
\* handed to the transport.
C9_Witness ==
    /\ pc = "fetch"
    /\ fetchCalls = 1
    /\ \E i \in DOMAIN payload.content.items :
          payload.content.items[i].value = Str(<<>>)

\* C10: an attachment whose type, filename or content is missing, is no string,
\* is empty or is white space only makes sendEmail fail with a validation error
\* naming the field, and the transport is not invoked.
C10_AttachmentValidation ==
    (/\ pc # "idle"
     /\ HasPersonalizations(payload)
     /\ AddressViolations(payload) = {}
     /\ ~ContentViolation(payload)
     /\ IsArray(payload.attachments)) =>
        \A i \in DOMAIN payload.attachments.items :
            LET a == payload.attachments.items[i]
            IN  (/\ ~NonBlank(a.type) \/ ~NonBlank(a.filename) \/ ~NonBlank(a.content)
                 /\ \A n \in 1..(i - 1) :
                        LET e == payload.attachments.items[n]
                        IN  NonBlank(e.type) /\ NonBlank(e.filename) /\ NonBlank(e.content)) =>
                    /\ outcome.kind = "TypeError"
                    /\ fetchCalls = 0
                    /\ Contains(outcome.message,
                                <<"attachments", Idx(i),
                                  IF ~NonBlank(a.type) THEN ".type"
                                  ELSE IF ~NonBlank(a.filename) THEN ".filename"
                                  ELSE ".content">>)


----------------------------------------------------------------------------
(* Properties of the response normalisation.                                *)

\* the call is over and the body text of the response was read
Normalized == pc = "done" /\ response # NoResponse /\ rejection = Nothing

\* C11: once the transport has returned a response and its body has been read,
\* sendEmail returns a success envelope with the status of the response if and
\* only if the status is in 200..299; for every other status it fails with a
\* MailChannelsError with the status of the response.
C11_OutcomeByStatus ==
    Normalized =>
        /\ outcome.status = response.status
        /\ outcome.kind = IF response.status \in 200..299
                          THEN "SendEmailResponse" ELSE "MailChannelsError"

\* C11 witness: a 300 response has become a MailChannelsError, a 299 response a
\* success envelope (one or the other is the state)
C11_Witness ==
    /\ Normalized
    /\ \/ response.status = 300 /\ outcome.kind = "MailChannelsError"
       \/ response.status = 299 /\ outcome.kind = "SendEmailResponse"


\* the body of the response was handed to JSON.parse and is JSON
BodyParsed ==
    /\ response.body # <<>>
    /\ DeclaresJson(HeadersGet(response.headers, "content-type"))
    /\ JsonParse(response.body).ok

\* C12: for a 2xx response whose parsed body is an object, the result has the id
\* of the body whenever that id is a string, and data is the whole object exactly
\* when the object has a key other than a string id; when the body was not
\* parsed but is not empty, data is the raw text; when the body is empty, data
\* is absent.
C12_SuccessEnvelope ==
    (Normalized /\ response.status \in 200..299) =>
        LET body == JsonParse(response.body).value
        IN  /\ (BodyParsed /\ body.t = "object") =>
                  /\ Get(body, <<"id">>).t = "string" =>
                        outcome.id = Str(Get(body, <<"id">>).s)
                  /\ outcome.data =
                        IF \E m \in body.members : m[1] # <<"id">> \/ m[2].t # "string"
                        THEN JsonData(body) ELSE NoData
            /\ (~BodyParsed /\ response.body # <<>>) =>
                  outcome.data = TextData(response.body)
            /\ response.body = <<>> => outcome.data = NoData


\* the raw text as a value handed on: the text, or nothing when it is empty
RawText == IF response.body = <<>> THEN NoData ELSE TextData(response.body)

\* C13: the body is parsed as JSON only when the content type declares JSON and
\* the text is not empty; when it is not parsed, or the parse fails, sendEmail
\* does not fail with a parse error: a 2xx response yields data equal to the raw
\* text and a non-2xx response a MailChannelsError whose details is the raw text.
C13_BodyInterpretation ==
    (Normalized /\ ~BodyParsed) =>
        IF response.status \in 200..299
        THEN /\ outcome.kind = "SendEmailResponse"
             /\ outcome.id = Undefined
             /\ outcome.data = RawText
        ELSE /\ outcome.kind = "MailChannelsError"
             /\ outcome.details = RawText

\* C13 witness: a body that is no JSON under a JSON content type came back as data
C13_Witness ==
    /\ Normalized
    /\ response.status = 200
    /\ DeclaresJson(HeadersGet(response.headers, "content-type"))
    /\ response.body = <<"not-json">>
    /\ outcome.data = TextData(<<"not-json">>)

\* the status text of the response, trimmed; the empty sequence when it is blank
StatusText ==
    IF NonBlank(response.statusText) THEN Trim(response.statusText.s) ELSE <<>>

\* the fallback message
Fallback ==
    IF StatusText # <<>>
    THEN <<"MailChannels request failed with ", ToString(response.status), " ">> \o StatusText
    ELSE <<"MailChannels request failed with status ", ToString(response.status)>>

\* what the extraction finds in the parsed body; undefined when the body was not
\* parsed, is no object or holds no message
Extracted ==
    IF BodyParsed /\ IsObject(JsonParse(response.body).value)
    THEN extractMessageFromBody(JsonParse(response.body).value)
    ELSE Undefined

\* C14: for a non-2xx response the message of the MailChannelsError is the
\* message extracted from the parsed body when there is one, otherwise the
\* trimmed raw text when it is not blank, otherwise the fallback with the status
\* and the status text, or with the status alone when there is no status text.
C14_MessagePrecedence ==
    (Normalized /\ response.status \notin 200..299) =>
        outcome.message =
            IF Extracted # Undefined THEN Extracted.s
            ELSE IF NonBlank(Str(response.body)) THEN Trim(response.body)
            ELSE Fallback

\* C14 witness: the body {"errors":[]} is its own message
C14_Witness ==
    /\ Normalized
    /\ response.status = 400
    /\ BodyParsed
    /\ response.body = <<"{", "\"", "errors", "\"", ":", "[", "]", "}">>
    /\ outcome.message = response.body

\* The strings the extraction may return, in the order of their priority: the
\* non-blank strings under the four keys, then those of the nested error object,
\* then those of the elements of the errors array in index order.
RECURSIVE Candidates(_)
Candidates(body) ==
    IF body.t # "object" THEN <<>>
    ELSE Flatten([n \in 1..4 |->
                    LET value == Get(body, << <<"message">>, <<"error_description">>,
                                              <<"detail">>, <<"error">> >>[n])
                    IN  IF value.t = "string" /\ NonBlank(Str(value.s))
                        THEN <<Trim(value.s)>> ELSE <<>>])
         \o Candidates(Get(body, <<"error">>))
         \o (IF Get(body, <<"errors">>).t # "array" THEN <<>>
             ELSE Flatten([n \in DOMAIN Get(body, <<"errors">>).items |->
                              LET entry == Get(body, <<"errors">>).items[n]
                              IN  IF entry.t = "string"
                                  THEN IF NonBlank(Str(entry.s)) THEN <<Trim(entry.s)>>
                                       ELSE <<>>
                                  ELSE Candidates(entry)]))

\* C15: on an error body object the first non-blank string among the keys
\* message, error_description, detail, error wins, trimmed; only then is a
\* nested error object searched the same way; only then are the elements of an
\* errors array visited in index order, a non-blank string being used as it is
\* and an object being searched; blank strings and objects without a usable key
\* are skipped; nothing is returned when there is no hit (the message is then
\* the raw text).
C15_ExtractionOrder ==
    (/\ Normalized
     /\ response.status \notin 200..299
     /\ BodyParsed
     /\ JsonParse(response.body).value.t = "object") =>
        LET found == Candidates(JsonParse(response.body).value)
        IN  outcome.message = IF found # <<>> THEN Head(found) ELSE Trim(response.body)

\* C15 witness: a body with a nested error object and an errors array; the
\* nested error gave the message
C15_Witness ==
    /\ Normalized
    /\ response.status = 400
    /\ BodyParsed
    /\ Len(Candidates(JsonParse(response.body).value)) = 2
    /\ Get(JsonParse(response.body).value, <<"error">>).t = "object"
    /\ Get(JsonParse(response.body).value, <<"errors">>).t = "array"
    /\ outcome.message = <<"nested">>

\* C16: the requestId of a MailChannelsError is the trimmed value of the first
\* of the headers x-request-id, x-mc-request-id, mc-request-id, cf-ray whose
\* value is not blank; a blank value in an earlier header does not stop the
\* search; requestId is unset when none of the four has a non-blank value.
C16_RequestId ==
    (Normalized /\ response.status \notin 200..299) =>
        LET names == <<"x-request-id", "x-mc-request-id", "mc-request-id", "cf-ray">>
            usable == {n \in 1..4 : NonBlank(HeadersGet(response.headers, names[n]))}
        IN  IF usable = {} THEN outcome.requestId = Undefined
            ELSE LET first == CHOOSE n \in usable : \A m \in usable : n <= m
                 IN  outcome.requestId =
                        Str(Trim(HeadersGet(response.headers, names[first]).s))

\* C16 witness: x-request-id is blank and x-mc-request-id gave the requestId
C16_Witness ==
    /\ Normalized
    /\ response.status = 429
    /\ HeadersGet(response.headers, "x-request-id") = Str(<<" ">>)
    /\ outcome.requestId = Str(<<"mc-1">>)


\* the text is a whole number: an optional sign, then digits only
IsIntegerText(s) ==
    LET digits == IF s # <<>> /\ s[1] \in {"-", "+"} THEN Tail(s) ELSE s
    IN  digits # <<>> /\ \A i \in DOMAIN digits : DigitValue(digits[i]) >= 0

\* the number such a text writes
IntegerOf(s) ==
    IF s[1] = "-" THEN -Digits(Tail(s), 0)
    ELSE IF s[1] = "+" THEN Digits(Tail(s), 0)
    ELSE Digits(s, 0)

\* the text begins, after white space and a sign, with a digit
HasLeadingInteger(s) ==
    LET t == TrimStart(s)
        digits == IF t # <<>> /\ t[1] \in {"-", "+"} THEN Tail(t) ELSE t
    IN  digits # <<>> /\ DigitValue(digits[1]) >= 0

\* the seconds from now until the time ms, rounded up; 0 when ms is not ahead
SecondsUntil(ms) ==
    IF ms <= now THEN 0
    ELSE CHOOSE n \in 1..(ms \div 1000 + 1) :
            n * 1000 >= ms - now /\ (n - 1) * 1000 < ms - now

\* C17: retryAfterSeconds of a MailChannelsError is unset or an integer >= 0:
\* max(n, 0) when the retry-after header is the integer n, the seconds until d
\* rounded up when it is the HTTP date d (0 when d is not in the future), unset
\* when the header is absent, empty or holds neither a number nor a date.
C17_RetryAfterSeconds ==
    (Normalized /\ response.status \notin 200..299) =>
        LET header == HeadersGet(response.headers, "retry-after")
            seconds == outcome.retryAfterSeconds
        IN  /\ seconds.k \in {"undefined", "number"}
            /\ seconds.n >= 0
            /\ (header = Null \/ header.s = <<>>) => seconds = NoNumber
            /\ (header # Null /\ IsIntegerText(header.s)) =>
                    seconds = Number(IF IntegerOf(header.s) > 0
                                     THEN IntegerOf(header.s) ELSE 0)
            /\ (header # Null /\ ~HasLeadingInteger(header.s)) =>
                    IF DateParse(header.s).k = "number"
                    THEN seconds = Number(SecondsUntil(DateParse(header.s).n))
                    ELSE seconds = NoNumber

\* C17 witness: the header is a date 1.5 seconds ahead and the window is 2 seconds
C17_Witness ==
    /\ Normalized
    /\ response.status = 429
    /\ HeadersGet(response.headers, "retry-after") = Str(<<"Thu, 01 Jan 1970 00:00:02 GMT">>)
    /\ now = 500
    /\ outcome.retryAfterSeconds = Number(2)


\* C18: the headers of every MailChannelsError is a frozen map; it has one entry
\* for each response header, keyed by the lower-cased name, when the error comes
\* from sendEmail; it is empty when the error is built with the legacy
\* constructor; it is a copy of the map passed to the options constructor, and
\* no later write to the headers of the error or to the map passed in changes
\* what the error exposes.
C18_FrozenHeaders ==
    error.kind # "none" =>
        LET exposed == objects[error.headers]
        IN  /\ exposed.frozen
            /\ error.headers # callerMap
            /\ exposed.entries = error.init
            /\ error.kind = "legacy" => exposed.entries = {}
            /\ error.kind = "sendEmail" =>
                  exposed.entries =
                      {<<toLowerCase(response.headers[n][1]), response.headers[n][2]>> :
                          n \in DOMAIN response.headers}

\* C18 witness: the caller has written to the map it passed to the constructor
\* and the error still exposes the entries it was given
C18_Witness ==
    /\ error.kind = "options"
    /\ callerMap # 0
    /\ objects[callerMap].entries # error.init
    /\ objects[error.headers].entries = error.init
    /\ error.init # {}


\* C19: details of the MailChannelsError thrown by sendEmail is the parsed JSON
\* body when the body was parsed, otherwise the raw text when it is not empty,
\* otherwise unset.
C19_Details ==
    (Normalized /\ response.status \notin 200..299) =>
        outcome.details = IF BodyParsed THEN JsonData(JsonParse(response.body).value)
                          ELSE RawText


----------------------------------------------------------------------------
(* Properties of the construction.                                          *)

\* a dkim configuration that is absent, no object or has a key that is no
\* non-blank string
BadDkim(o) ==
    \/ o.dkim.k # "object"
    \/ ~NonBlank(o.dkim.domain)
    \/ ~NonBlank(o.dkim.selector)
    \/ ~NonBlank(o.dkim.privateKey)

\* the construction has failed with a TypeError and there is no client
ConstructionFailed == ~client.built /\ outcome.kind = "TypeError"

\* the construction has returned a client
ConstructionSucceeded == client.built /\ outcome = NoOutcome

\* C20 as stated: construction fails with a TypeError, and no client is
\* produced, whenever the options are absent or no object, the API key is missing
\* or blank after trimming, the dkim configuration is absent or no object, one of
\* its three keys is no non-blank string, or neither the supplied
\* fetchImplementation nor the ambient fetch is a function; in every other case
\* construction succeeds.
C20_ConstructionAsStated ==
    config # Nothing =>
        IF \/ config.k # "object"
           \/ config.apiKey = Undefined
           \/ IsString(config.apiKey) /\ ~NonBlank(config.apiKey)
           \/ BadDkim(config)
           \/ config.fetchImplementation # "function" /\ ~config.ambientFetch
        THEN ConstructionFailed
        ELSE ConstructionSucceeded

\* C20 amended: construction fails with a TypeError, and no client is produced,
\* whenever the options are absent or no object, the API key is missing, is no
\* string or is blank after trimming, the dkim configuration is absent or no
\* object, one of its three keys is no non-blank string, the transport chosen
\* (the supplied fetchImplementation unless it is null or undefined, the
\* ambient fetch then) is no function, or a baseUrl is supplied that is no
\* string; in every other case construction succeeds.
C20_Construction ==
    config # Nothing =>
        IF \/ config.k # "object"
           \/ ~NonBlank(config.apiKey)
           \/ BadDkim(config)
           \/ config.fetchImplementation \notin {"function", "undefined", "null"}
           \/ config.fetchImplementation # "function" /\ ~config.ambientFetch
           \/ config.baseUrl.k \notin {"undefined", "null", "string"}
        THEN ConstructionFailed
        ELSE ConstructionSucceeded

\* C20 witness: a fetchImplementation that is no function makes the construction
\* fail although the ambient fetch is there
C20_Witness ==
    /\ config # Nothing
    /\ config.k = "object"
    /\ NonBlank(config.apiKey)
    /\ ~BadDkim(config)
    /\ config.fetchImplementation = "string"
    /\ config.ambientFetch
    /\ ConstructionFailed

----------------------------------------------------------------------------
(* Properties of the call as a whole: failures of the transport, the       *)
(* configuration, the options of a call, calls side by side.                *)

\* C24: when the transport call or the reading of the response body fails,
\* sendEmail fails with that very value, unchanged (no MailChannelsError, no
\* validation TypeError, no success envelope), and the transport was invoked
\* once and is not invoked again.
C24_FailurePropagates ==
    rejection # Nothing =>
        /\ pc = "done"
        /\ outcome = rejection
        /\ fetchCalls = 1

\* C24 witness: reading the body of a response fails with an abort, and the call
\* is over
C24_Witness ==
    /\ rejection # Nothing
    /\ rejection.kind = "AbortError"
    /\ response # NoResponse
    /\ pc = "done"

\* the call is suspended at one of its awaits
Suspended == pc \in {"fetch", "text"}

\* what the statements up to the first await throw, in their order: the merge,
\* the validation of the merged payload, new URL
ThrownBeforeFetch ==
    IF ApplyDkimThrows(payload) # <<>> THEN ApplyDkimThrows(payload)
    ELSE IF validateSendRequest(normalizedPayload) # <<>>
    THEN validateSendRequest(normalizedPayload)
    ELSE <<"Invalid URL">>

\* the steps of a call in their order, up to the response: the merge and the
\* validation are over before the call is suspended, the request is built from
\* the merged payload, the transport was invoked with it, and the response is
\* normalised only when it is there
StepsInOrder ==
    /\ Suspended =>
          /\ ApplyDkimThrows(payload) = <<>>
          /\ normalizedPayload = applyDkimDefaults(client.dkim, payload)
          /\ validateSendRequest(normalizedPayload) = <<>>
          /\ request = BuildRequest(client, normalizedPayload, callOptions)
          /\ fetchCalls = 1
          /\ outcome = NoOutcome
    /\ pc = "fetch" => response = NoResponse
    /\ pc = "text" => response # NoResponse
    /\ (pc = "done" /\ fetchCalls = 0) =>
          /\ outcome = TypeError(ThrownBeforeFetch)
          /\ request = NoRequest
          /\ response = NoResponse
    /\ (pc = "done" /\ outcome.kind \in {"SendEmailResponse", "MailChannelsError"}) =>
          /\ fetchCalls = 1
          /\ response # NoResponse
          /\ outcome = Normalize(response, now)

\* C27 as stated: the steps occur in the order merge, validate, build, invoke,
\* normalise, and the transport invocation is the only suspension point: once
\* the transport has produced its response the call is complete, it is not
\* suspended again.
C27_SingleSuspension ==
    /\ StepsInOrder
    /\ response # NoResponse => pc = "done"

\* C27 amended: the steps occur in the order merge, validate, build, invoke,
\* normalise; the call is suspended at the transport invocation and, once the
\* transport has produced its response, a second time at the reading of the
\* body of the response, and nowhere else: the merge, the validation and the
\* building finish before the first suspension and the normalisation completes
\* the call without a further suspension once the body text is there.
C27_StepOrder ==
    /\ []StepsInOrder
    /\ [][/\ pc = "idle" => pc' \in {"fetch", "done"}
          /\ pc = "fetch" => pc' \in {"text", "done"}
          /\ pc = "text" => pc' = "done"
          /\ pc = "done" => pc' = "idle"]_vars

\* C27 witness: the transport has produced its response and the call is
\* suspended again, at response.text()
C27_Witness ==
    /\ pc = "text"
    /\ response # NoResponse
    /\ outcome = NoOutcome
    /\ fetchCalls = 1

----------------------------------------------------------------------------
(* Properties of the error message and of the completion of a call.        *)

\* C29: the message of every MailChannelsError sendEmail throws is a non-blank
\* string without leading or trailing white space, whatever the status, the
\* status text, the content type and the body of the response.
C29_MessageTrimmed ==
    (pc = "done" /\ outcome.kind = "MailChannelsError") =>
        /\ outcome.message # <<>>
        /\ Head(outcome.message) # " "
        /\ outcome.message[Len(outcome.message)] # " "
        /\ \E i \in DOMAIN outcome.message : outcome.message[i] # " "

\* C29 witness: the message key of a JSON body is blank, so the error carries
\* the text of the body
C29_Witness ==
    /\ pc = "done"
    /\ outcome.kind = "MailChannelsError"
    /\ response.body = Obj(<<Pair("message", Quote(<<" ">>))>>)
    /\ DeclaresJson(HeadersGet(response.headers, "content-type"))
    /\ outcome.message = response.body

\* the call has returned an envelope or failed with an error
Completed ==
    /\ pc = "done"
    /\ \/ outcome.kind \in {"SendEmailResponse", "MailChannelsError"}
       \/ rejection # Nothing /\ outcome = rejection

\* C30: once the transport has produced a response, the call eventually returns
\* a success envelope or fails with an error, whatever the body of the response
\* (the message extraction returns for every parsed body, however its error
\* objects and errors arrays are nested); a failure of the transport completes
\* the call at once.
C30_CallCompletes ==
    /\ (pc = "text") ~> Completed
    /\ [](rejection # Nothing => Completed)

\* C30 witness: the call has failed with the message found under the deepest
\* nesting of error objects of the model
C30_Witness ==
    /\ Completed
    /\ response.body = Nested(MaxDepth)
    /\ outcome.kind = "MailChannelsError"
    /\ outcome.message = <<"deep">>

----------------------------------------------------------------------------
(* Properties of the configuration and of the options of a call.           *)

\* a request was handed to the transport in the current call
Sent == request # NoRequest

\* the values the request carries under a header name
RequestHeader(name) == {e[2] : e \in {h \in request.headers : h[1] = name}}

\* the configured default headers name the header
DefaultNames(name) == \E e \in config.defaultHeaders : e[1] = name

\* the DKIM defaults applied to the payload of the tests, which has no DKIM keys
\* of its own in its body and in its first personalization, are the configured
\* values trimmed
DkimDefaultsTrimmed ==
    /\ normalizedPayload.dkim_domain = Str(Trim(config.dkim.domain.s))
    /\ normalizedPayload.dkim_selector = Str(Trim(config.dkim.selector.s))
    /\ normalizedPayload.dkim_private_key = Str(Trim(config.dkim.privateKey.s))
    /\ normalizedPayload.personalizations.items[1].dkim_domain
            = Str(Trim(config.dkim.domain.s))
    /\ normalizedPayload.personalizations.items[1].dkim_selector
            = Str(Trim(config.dkim.selector.s))
    /\ normalizedPayload.personalizations.items[1].dkim_private_key
            = Str(Trim(config.dkim.privateKey.s))

\* C21: for every accepted configuration the API-key header sendEmail sends is
\* the configured apiKey with its leading and trailing white space removed (the
\* default headers not naming that header), and the DKIM defaults applied to
\* the payload are the configured values trimmed.
C21_TrimmedCredentials ==
    (Sent /\ ~DefaultNames("X-Api-Key")) =>
        /\ RequestHeader("X-Api-Key") = {Trim(config.apiKey.s)}
        /\ DkimDefaultsTrimmed

\* the stored base URL ends with one "/" and no more
OneTrailingSlash ==
    /\ client.baseUrl # <<>>
    /\ client.baseUrl[Len(client.baseUrl)] = "/"
    /\ Len(client.baseUrl) > 1 => client.baseUrl[Len(client.baseUrl) - 1] # "/"

\* the request URL is the stored base URL followed by send (and by the dry-run
\* parameter when the call asks for it)
UrlIsBaseThenSend ==
    Sent => request.url = client.baseUrl \o <<"send">>
                            \o (IF callOptions.dryRun THEN <<"?dry-run=true">> ELSE <<>>)

\* C22: for every base URL given at construction (without a trailing slash, with
\* one, with several, with surrounding white space) and for the default, the
\* stored base URL ends with exactly one "/" and the request URL is that base
\* followed by send.
C22_BaseUrlNormalised ==
    client.built => OneTrailingSlash /\ UrlIsBaseThenSend

\* C23: every request handed to the transport is a POST whose headers hold
\* content-type: application/json, X-Api-Key with the API key of the client and
\* every configured default header (a default Idempotency-Key giving way to the
\* key of the call), whatever the map of default headers, one that names
\* content-type or X-Api-Key included.
C23_RequestHeaders ==
    Sent =>
        /\ request.method = "POST"
        /\ RequestHeader("content-type") = {<<"application/json">>}
        /\ RequestHeader("X-Api-Key") = {client.apiKey}
        /\ \A e \in config.defaultHeaders :
              (e[1] = "Idempotency-Key" /\ Truthy(callOptions.idempotencyKey))
              \/ e \in request.headers

\* C26: the request URL carries the query parameter dry-run=true if and only if
\* options.dryRun is set; the header Idempotency-Key is options.idempotencyKey
\* whenever that key is non-empty, a default header of that name giving way,
\* and is otherwise as the default headers have it; options.signal is passed
\* to the transport as it is, and the transport is invoked whatever the signal.
C26_CallOptions ==
    callOptions # Nothing =>
        /\ Sent
        /\ fetchCalls = 1
        /\ Contains(request.url, <<"?dry-run=true">>) <=> callOptions.dryRun
        /\ RequestHeader("Idempotency-Key") =
                IF IsString(callOptions.idempotencyKey)
                   /\ Len(callOptions.idempotencyKey.s) > 0
                THEN {callOptions.idempotencyKey.s}
                ELSE {e[2] : e \in {h \in config.defaultHeaders :
                                        h[1] = "Idempotency-Key"}}
        /\ request.signal = callOptions.signal

\* C26 witness: a dry run with an idempotency key and a signal that is aborted
\* already, on a client whose default headers name Idempotency-Key
C26_Witness ==
    /\ callOptions # Nothing
    /\ callOptions.dryRun
    /\ callOptions.idempotencyKey = Str(<<"i">>)
    /\ callOptions.signal = "aborted"
    /\ DefaultNames("Idempotency-Key")
    /\ pc = "fetch"
    /\ RequestHeader("Idempotency-Key") = {<<"i">>}

\* the caller has written to the defaultHeaders map and to the dkim object it
\* passed to the constructor
CallerWrote ==
    /\ held.objects[held.options.defaultHeaders].entries # config.defaultHeaders
    /\ Field(held.objects[held.options.dkim], "domain") = <<"written">>

\* C28: the configuration is captured at construction: whatever the caller
\* writes afterwards to the defaultHeaders map or to the dkim object it passed
\* in, the fields of the client stay those the constructor made of the options,
\* the request of every call is built from them, from the payload and from the
\* options of that call alone, and between two calls nothing of the earlier call
\* is left.
C28_ConfigCaptured ==
    /\ client = MailChannelsClient(config)
    /\ Sent =>
          /\ normalizedPayload = applyDkimDefaults(NewClient(config).dkim, payload)
          /\ request = BuildRequest(MailChannelsClient(config), normalizedPayload,
                                    callOptions)
    /\ pc = "idle" =>
          /\ payload = Nothing
          /\ normalizedPayload = Nothing
          /\ callOptions = Nothing
          /\ request = NoRequest
          /\ response = NoResponse
          /\ outcome = NoOutcome
          /\ rejection = Nothing
          /\ error = NoError

\* C28 witness: the caller wrote to both objects after the construction, and a
\* call made afterwards is at the transport with the headers and the DKIM
\* domain of the construction
C28_Witness ==
    /\ CallerWrote
    /\ pc = "fetch"
    /\ RequestHeader("X-Late") = {}
    /\ normalizedPayload.dkim_domain = Str(Trim(config.dkim.domain.s))

\* call i alone: its request and its result are those sendEmail makes of the
\* client as constructed, of its own payload and options, and of its own
\* response or rejection
CallIsItsOwn(i) ==
    LET call == calls[i]
        made == MailChannelsClient(config)
    IN  /\ call.pc \in {"fetch", "text"} =>
              /\ call.outcome = NoOutcome
              /\ call.request = BuildRequest(made,
                                             applyDkimDefaults(made.dkim, call.payload),
                                             call.options)
        /\ call.pc = "done" =>
              /\ call.request # NoRequest =>
                    call.request = BuildRequest(made,
                                                applyDkimDefaults(made.dkim, call.payload),
                                                call.options)
              /\ call.request = NoRequest =>
                    call.outcome = TypeError(SendEmailThrows(made, call.payload))
              /\ call.rejection # Nothing => call.outcome = call.rejection
              /\ call.request # NoRequest /\ call.rejection = Nothing =>
                    call.outcome = Normalize(call.response, now)

\* C25: two sendEmail calls on one client, their steps interleaved in every
\* way, are independent: the request of each call is the one built from the
\* configuration of the client and from the payload and the options of that
\* call, the result of each call is the one made of the response (or of the
\* rejection) of that call, and no step of a call changes a field of the
\* client.
C25_ConcurrentCallsIndependent ==
    /\ [](client = MailChannelsClient(config) /\ \A i \in (1..MaxCalls) : CallIsItsOwn(i))
    /\ [][client' = client]_vars

\* C25 witness: both calls are in flight at once with different payloads and
\* options, the second one answered with an error while the first one, which
\* carries an idempotency key, has a success response whose body is not read yet
C25_Witness ==
    /\ calls[1].pc = "text"
    /\ calls[1].response.status = 200
    /\ calls[1].options.idempotencyKey = Str(<<"i">>)
    /\ calls[2].pc = "done"
    /\ calls[2].outcome.kind = "MailChannelsError"
    /\ calls[2].outcome.status = 429
    /\ calls[2].options = DefaultCallOptions
    /\ calls[2].payload # calls[1].payload
    /\ \A e \in calls[2].request.headers : e[1] # "Idempotency-Key"

====
